---- MODULE Spec2Model ----
(***************************************************************************)
(* Pairwise-preference arena: the rating update law (rating.js), the pair  *)
(* selector (selector.js) and the vote / undo / reset controller of the    *)
(* unified app (unified_app.js).                                           *)
(*                                                                         *)
(* Numbers.  The program computes mu and sigma in IEEE doubles; the model  *)
(* is in fixed point.  mu and sigma are integers in units of 1/SCALE,      *)
(* kMult is in units of 1/KSCALE, probabilities and outcomes are in units  *)
(* of 1/PSCALE.  Every product is rounded to the nearest unit, half away   *)
(* from zero (RDiv), so that rounding is sign-symmetric as it is in IEEE   *)
(* arithmetic.                                                             *)
(***************************************************************************)
EXTENDS Integers, Sequences, FiniteSets, TLC

\* ------------------------------------------------------------------ bounds
\* number of papers in the loaded CSV (RAW_RECORDS) of the controller
NumItems == 3
\* votes are disabled once the history holds this many entries
MaxHist == 2
\* the selection settings differ from the defaults in at most this many places
MaxCfgDelta == 1
\* largest pool handed to chooseNextPair in the selector specification
MaxPool == 3
\* longest history the two-paper arena starts with
MaxWarm == 26
\* votes cast in the two-paper arena on top of the history it starts with
MaxRateOps == 2
\* the ratings of a loaded state lie up to this many grid steps off the default
MaxMuSteps == 4
\* longest history of a saved state handed to normalizeState
MaxRawLen == 2
\* renderSchedule is invoked at most this many times
MaxSchedCalls == 3
\* the size of the pools of the bubble-mode calls
MaxBubblePool == 32

\* ------------------------------------------------------------- fixed point
\* units: mu and sigma, kMult, probabilities
SCALE == 10 ^ 3
KSCALE == 10 ^ 2
PSCALE == 10 ^ 4

\* a / b rounded to the nearest integer, halves away from zero (b > 0)
RDiv(a, b) ==
    IF a >= 0 THEN (a + (b \div 2)) \div b ELSE -(((-a) + (b \div 2)) \div b)

\* the one element of the singleton S
Value(S) == CHOOSE v \in S : TRUE

Max(a, b) == IF a >= b THEN a ELSE b
Min(a, b) == IF a <= b THEN a ELSE b
Abs(a) == IF a >= 0 THEN a ELSE -a

\* ---------------------------------------------------------------- rating.js
DEFAULT_MU == 1500 * SCALE
DEFAULT_SIGMA == 350 * SCALE
MIN_SIGMA == 60 * SCALE
\* SIGMA_DECAY = 0.93, in hundredths
SIGMA_DECAY == 93
BASE_K == 32
\* JOINT_FEEDBACK_SCALE = 0.45, in hundredths
JOINT_FEEDBACK_SCALE == 45

\* outcomes in units of 1/PSCALE; NoOutcome stands for null
OUT_A == PSCALE
OUT_B == 0
OUT_TIE == PSCALE \div 2
NoOutcome == 0 - 1

clamp(x, lo, hi) == Max(lo, Min(hi, x))

\* PSCALE * 10^(-k/16) for k = 0..16: Math.pow(10, .) inside one decade
Pow10Table ==
    <<10000, 8660, 7499, 6494, 5623, 4870, 4217, 3652, 3162,
      2738, 2371, 2054, 1778, 1540, 1334, 1155, 1000>>

\* PSCALE * 10^(-d/400) for a rating difference d >= 0 given in 1/SCALE:
\* the table inside a decade, linear in between, one factor 10 per 400 points
Pow10Neg(d) ==
    LET decade == 400 * SCALE
        step == decade \div 16
        q == d \div decade
        r == d % decade
        i == r \div step
        f == r % step
        lo == Pow10Table[i + 1]
        hi == Pow10Table[i + 2]
        v == lo - RDiv((lo - hi) * f, step)
    IN  IF q >= 5 THEN 0 ELSE RDiv(v, 10 ^ q)

\* logistic(x) = 1 / (1 + 10^(-x/400)), x in 1/SCALE, result in 1/PSCALE
logistic(x) ==
    IF x >= 0
    THEN RDiv(PSCALE * PSCALE, PSCALE + Pow10Neg(x))
    ELSE RDiv(PSCALE * Pow10Neg(-x), PSCALE + Pow10Neg(-x))

\* baseK * clamp(sigma / DEFAULT_SIGMA, 0.6, 1.8), baseK in 1/KSCALE,
\* result in 1/SCALE
EffectiveK(baseK, sigma) ==
    RDiv(baseK * clamp(RDiv(sigma * 1000, DEFAULT_SIGMA), 600, 1800),
         (KSCALE * 1000) \div SCALE)

\* DecaySigma that divides by SIGMA_DECAY
DecaySigmaInverse(sigma, factor) ==
    Max(MIN_SIGMA, RDiv(RDiv(sigma * 100, SIGMA_DECAY) * factor, 100))

\* DecaySigma without the floor: sigma * SIGMA_DECAY * factor
DecaySigmaNoFloor(sigma, factor) ==
    RDiv(RDiv(sigma * SIGMA_DECAY, 100) * factor, 100)

\* sigma after one comparison: max(MIN_SIGMA, sigma * SIGMA_DECAY * factor),
\* factor in hundredths
DecaySigma(sigma, factor) ==
    Max(MIN_SIGMA, RDiv(RDiv(sigma * SIGMA_DECAY, 100) * factor, 100))

\* updatePair whose loser term is outcome - pB instead of (1 - outcome) - pB
updatePairSameSign(A, B, outcome, baseK) ==
    LET KA == EffectiveK(baseK, A.sigma)
        KB == EffectiveK(baseK, B.sigma)
        pA == logistic(A.mu - B.mu)
        pB == PSCALE - pA
        dA == RDiv(KA * (outcome - pA), PSCALE)
        dB == RDiv(KB * (outcome - pB), PSCALE)
        tieFactor == IF outcome = OUT_TIE THEN 98 ELSE 100
    IN  [A |-> [A EXCEPT !.mu = A.mu + dA,
                         !.sigma = DecaySigma(A.sigma, tieFactor),
                         !.n = A.n + 1],
         B |-> [B EXCEPT !.mu = B.mu + dB,
                         !.sigma = DecaySigma(B.sigma, tieFactor),
                         !.n = B.n + 1]]

\* updatePair that applies the tie factor 0.98 to every outcome
updatePairTieDecay(A, B, outcome, baseK) ==
    LET KA == EffectiveK(baseK, A.sigma)
        KB == EffectiveK(baseK, B.sigma)
        pA == logistic(A.mu - B.mu)
        pB == PSCALE - pA
        dA == RDiv(KA * (outcome - pA), PSCALE)
        dB == RDiv(KB * ((PSCALE - outcome) - pB), PSCALE)
    IN  [A |-> [A EXCEPT !.mu = A.mu + dA,
                         !.sigma = DecaySigma(A.sigma, 98),
                         !.n = A.n + 1],
         B |-> [B EXCEPT !.mu = B.mu + dB,
                         !.sigma = DecaySigma(B.sigma, 98),
                         !.n = B.n + 1]]

\* updatePair(A, B, outcome, {baseK}): the two rating records after the call
updatePair(A, B, outcome, baseK) ==
    LET KA == EffectiveK(baseK, A.sigma)
        KB == EffectiveK(baseK, B.sigma)
        pA == logistic(A.mu - B.mu)
        pB == PSCALE - pA
        dA == RDiv(KA * (outcome - pA), PSCALE)
        dB == RDiv(KB * ((PSCALE - outcome) - pB), PSCALE)
        tieFactor == IF outcome = OUT_TIE THEN 98 ELSE 100
    IN  [A |-> [A EXCEPT !.mu = A.mu + dA,
                         !.sigma = DecaySigma(A.sigma, tieFactor),
                         !.n = A.n + 1],
         B |-> [B EXCEPT !.mu = B.mu + dB,
                         !.sigma = DecaySigma(B.sigma, tieFactor),
                         !.n = B.n + 1]]

\* -------------------------------------------------------------- selector.js
\* An item is a record [id, mu, sigma, n, wins, cat1]; an array of items is a
\* sequence.  null is the empty sequence, an optional item is a sequence of
\* length at most one and a returned pair is a sequence of two items.
NULL == <<>>

Modes == {"active", "random", "bubble", "resolve_ties"}
MuPriorities == {"highest", "lowest", "random"}
NStrategies == {"minimal", "maximal", "random"}

\* Array.prototype.sort with a comparator: stable, Less(a, b) iff cmp(a, b) < 0
SortArray(s, Less(_, _)) ==
    LET rank(i) == Cardinality({j \in 1..Len(s) :
                        Less(s[j], s[i]) \/ (~Less(s[i], s[j]) /\ j < i)}) + 1
    IN  [r \in 1..Len(s) |-> s[CHOOSE i \in 1..Len(s) : rank(i) = r]]

\* Array.prototype.filter
Filter(s, Keep(_)) == SelectSeq(s, Keep)

\* Array.prototype.slice(0, k)
Take(s, k) == SubSeq(s, 1, Min(k, Len(s)))

\* [...s].reverse()
Reverse(s) == [i \in 1..Len(s) |-> s[Len(s) + 1 - i]]

IdsOf(s) == {s[i].id : i \in 1..Len(s)}

SetMin(S) == CHOOSE x \in S : \A y \in S : x <= y
SetMax(S) == CHOOSE x \in S : \A y \in S : x >= y

\* shuffle(arr): Fisher-Yates on a copy, every permutation is possible
shuffle(arr) ==
    {[i \in 1..Len(arr) |-> arr[p[i]]] : p \in Permutations(1..Len(arr))}

getMuPriority(state) == state.muPriority
getNStrategy(state) == state.resolveTieNMatches

\* applyWinsFilter that lets every item through
applyWinsFilterOff(items, state) == items

applyWinsFilter(items, state) ==
    IF ~state.winsOnly THEN items ELSE Filter(items, LAMBDA x : x.wins >= 1)

\* the arrays orderByMuPriority can return (one, or any shuffle)
orderByMuPriority(items, state) ==
    IF getMuPriority(state) = "lowest"
    THEN {SortArray(items, LAMBDA a, b : a.mu < b.mu)}
    ELSE IF getMuPriority(state) = "random"
    THEN shuffle(items)
    ELSE {SortArray(items, LAMBDA a, b : b.mu < a.mu)}

\* the argument array of orderByMuPriority after the call: the sort runs on
\* the copy [...items] and shuffle on the copy [...arr], the argument keeps
\* its order
ArgAfterOrderInPlace(items, out) == out
ArgAfterOrder(items, out) == items

\* the n values selectGroupByN / chooseTieResolutionPair may target
TargetNs(nValues, strategy) ==
    IF strategy = "maximal" THEN {SetMax(nValues)}
    ELSE IF strategy = "random" THEN nValues
    ELSE {SetMin(nValues)}

\* the buckets selectGroupByN can return
selectGroupByN(items, state) ==
    IF Len(items) <= 1 THEN {items}
    ELSE {Filter(items, LAMBDA x : x.n = t) :
            t \in TargetNs({items[i].n : i \in 1..Len(items)},
                           getNStrategy(state))}

\* pickNotIn that does not look at the banned ids
pickNotInAny(arr, bannedSet) ==
    IF Len(arr) = 0 THEN NULL ELSE <<arr[1]>>

\* pickNotIn(arr, bannedSet): the first item whose id is not banned, or null
pickNotIn(arr, bannedSet) ==
    LET ok == {i \in 1..Len(arr) : arr[i].id \notin bannedSet}
    IN  IF ok = {} THEN NULL ELSE <<arr[SetMin(ok)]>>

\* pickNotIn(arr, lastIds) ?? arr[0]
PickOrFirst(arr, lastIds) ==
    IF pickNotIn(arr, lastIds) # NULL THEN pickNotIn(arr, lastIds)
    ELSE IF Len(arr) > 0 THEN <<arr[1]>> ELSE NULL

\* PickTwo whose second pick is not kept apart from the first
PickTwoSamePool(candidates, lastIds) ==
    LET first == PickOrFirst(candidates, lastIds)
    IN  IF first = NULL THEN NULL
        ELSE <<first[1], PickOrFirst(candidates, lastIds)[1]>>

\* lines 58-64 of pickTwoFromPool, for one bucket
PickTwo(candidates, lastIds) ==
    LET first == PickOrFirst(candidates, lastIds)
    IN  IF first = NULL THEN NULL
        ELSE LET secondCandidates ==
                     Filter(candidates, LAMBDA x : x.id # first[1].id)
                 second == PickOrFirst(secondCandidates, lastIds)
             IN  IF second = NULL THEN NULL ELSE <<first[1], second[1]>>

pickTwoFromPool(pool, lastIds, state) ==
    {PickTwo(c, lastIds) : c \in selectGroupByN(pool, state)}

\* Number(item.mu).toFixed(6), the key of a tie group.  Ratings of the model
\* are multiples of 1/SCALE, which six decimals represent exactly, so two
\* model ratings have the same key iff they are equal.
MuKey(mu) == mu

\* the orders in which chooseTieResolutionPair can visit the tie groups
\* (lines 141-159): the mu keys with at least two members, sorted by the
\* priority direction; a random comparator can leave any order
TiedGroupOrders(items, state) ==
    LET keys == {MuKey(items[i].mu) : i \in 1..Len(items)}
        tied == {k \in keys :
                   Len(Filter(items, LAMBDA x : MuKey(x.mu) = k)) >= 2}
        orders == {f \in [1..Cardinality(tied) -> tied] :
                     \A i, j \in 1..Cardinality(tied) : i # j => f[i] # f[j]}
    IN  IF getMuPriority(state) = "lowest"
        THEN {f \in orders : \A i, j \in DOMAIN f : i < j => f[i] < f[j]}
        ELSE IF getMuPriority(state) = "random"
        THEN orders
        ELSE {f \in orders : \A i, j \in DOMAIN f : i < j => f[i] > f[j]}

\* the loop over the tie groups (lines 165-200), keys being the groups left
RECURSIVE TieLoop(_, _, _, _)
TieLoop(keys, items, state, lastIds) ==
    IF keys = <<>> THEN {NULL}
    ELSE
      LET topTieGroup == Filter(items, LAMBDA x : MuKey(x.mu) = keys[1])
          candidatePool == applyWinsFilter(topTieGroup, state)
          nValues == {candidatePool[i].n : i \in 1..Len(candidatePool)}
          availableN == {v \in nValues :
                           Len(Filter(candidatePool, LAMBDA x : x.n = v)) >= 2}
          byBucket ==
              IF availableN = {} THEN {NULL}
              ELSE {PickTwo(Filter(candidatePool, LAMBDA x : x.n = t), lastIds) :
                      t \in TargetNs(availableN, getNStrategy(state))}
          fallbackPair == pickTwoFromPool(candidatePool, lastIds, state)
      IN  (byBucket \ {NULL})
          \cup (IF NULL \in byBucket THEN fallbackPair \ {NULL} ELSE {})
          \cup (IF NULL \in byBucket /\ NULL \in fallbackPair
                THEN TieLoop(Tail(keys), items, state, lastIds) ELSE {})

chooseTieResolutionPair(items, state, lastIds) ==
    UNION {TieLoop(keys, items, state, lastIds) :
             keys \in TiedGroupOrders(items, state)}

\* Math.max(2, Math.ceil(len * 0.4)); exact for the pools of the model
\* (in doubles len * 0.4 exceeds the integer for some len >= 15)
FocusCount(len) == Max(2, (2 * len + 4) \div 5)

\* BoundarySize without the 20 items of buffer
BoundarySizeNoBuffer(state) == Max(10, state.topN)

\* Math.max(10, Number(state.topN ?? 60)) + 20
BoundarySize(state) == Max(10, state.topN) + 20

\* ChooseB that takes B from the undiversified candidate list
ChooseBNoDiversity(prioritized, state, lastIds, A) ==
    LET others == Filter(prioritized, LAMBDA x : x.id # A.id)
        candidates ==
            SortArray(others, LAMBDA u, v :
                \/ Abs(u.mu - A.mu) < Abs(v.mu - A.mu)
                \/ /\ Abs(u.mu - A.mu) = Abs(v.mu - A.mu)
                   /\ v.sigma < u.sigma)
        diverse == Filter(candidates, LAMBDA c : c.cat1 # A.cat1)
        poolB == Take(candidates, 30)
        boundarySource == IF getMuPriority(state) = "lowest"
                          THEN Reverse(prioritized) ELSE prioritized
        boundaryIds == IdsOf(Take(boundarySource, BoundarySize(state)))
        poolB2 == Filter(poolB, LAMBDA c : c.id \in boundaryIds)
    IN  IF state.mode = "bubble" /\ A.id \in boundaryIds /\ Len(poolB2) > 0
        THEN {<<A, PickOrFirst(chosenBPool, lastIds)[1]>> :
                chosenBPool \in selectGroupByN(poolB2, state)}
        ELSE {IF PickOrFirst(finalBPool, lastIds) = NULL THEN NULL
              ELSE <<A, PickOrFirst(finalBPool, lastIds)[1]>> :
                finalBPool \in selectGroupByN(poolB, state)}

\* lines 102-137: the pairs the selector can return once A is chosen
ChooseB(prioritized, state, lastIds, A) ==
    LET others == Filter(prioritized, LAMBDA x : x.id # A.id)
        candidates ==
            SortArray(others, LAMBDA u, v :
                \/ Abs(u.mu - A.mu) < Abs(v.mu - A.mu)
                \/ /\ Abs(u.mu - A.mu) = Abs(v.mu - A.mu)
                   /\ v.sigma < u.sigma)
        diverse == Filter(candidates, LAMBDA c : c.cat1 # A.cat1)
        poolB == Take(IF Len(diverse) > 0 THEN diverse ELSE candidates, 30)
        boundarySource == IF getMuPriority(state) = "lowest"
                          THEN Reverse(prioritized) ELSE prioritized
        boundaryIds == IdsOf(Take(boundarySource, BoundarySize(state)))
        poolB2 == Filter(poolB, LAMBDA c : c.id \in boundaryIds)
    IN  IF state.mode = "bubble" /\ A.id \in boundaryIds /\ Len(poolB2) > 0
        THEN {<<A, PickOrFirst(chosenBPool, lastIds)[1]>> :
                chosenBPool \in selectGroupByN(poolB2, state)}
        ELSE {IF PickOrFirst(finalBPool, lastIds) = NULL THEN NULL
              ELSE <<A, PickOrFirst(finalBPool, lastIds)[1]>> :
                finalBPool \in selectGroupByN(poolB, state)}

\* lines 88-100: the choice of A, then of B
ChooseActive(prioritized, state, lastIds) ==
    LET focusPool == Take(prioritized, FocusCount(Len(prioritized)))
        byUnc == SortArray(focusPool, LAMBDA x, y : y.sigma < x.sigma)
        poolA == Take(byUnc, Min(40, Len(byUnc)))
    IN  UNION {IF PickOrFirst(poolAByN, lastIds) = NULL THEN {NULL}
               ELSE ChooseB(prioritized, state, lastIds,
                            PickOrFirst(poolAByN, lastIds)[1]) :
                 poolAByN \in selectGroupByN(poolA, state)}

\* lines 84-137: what follows the tie-resolution attempt
ChooseByMode(prioritized, state, lastIds) ==
    IF state.mode = "random"
    THEN pickTwoFromPool(prioritized, lastIds, state)
    ELSE ChooseActive(prioritized, state, lastIds)

\* ChooseFrom that returns what the tie-resolution attempt returned
ChooseFromTieOnly(prioritized, state) ==
    IF state.mode = "resolve_ties"
    THEN chooseTieResolutionPair(prioritized, state, IdsOf(state.lastPair))
    ELSE ChooseByMode(prioritized, state, IdsOf(state.lastPair))

\* lines 75-137 for one priority ordering
ChooseFrom(prioritized, state) ==
    LET lastIds == IdsOf(state.lastPair)
        tiePair == chooseTieResolutionPair(prioritized, state, lastIds)
    IN  IF state.mode = "resolve_ties"
        THEN (tiePair \ {NULL})
             \cup (IF NULL \in tiePair
                   THEN ChooseByMode(prioritized, state, lastIds) ELSE {})
        ELSE ChooseByMode(prioritized, state, lastIds)

\* the items array after chooseNextPair ran with the ordering prioritized:
\* without winsOnly applyWinsFilter hands items itself to orderByMuPriority
ItemsAfterChoose(items, state, prioritized) ==
    IF state.winsOnly THEN items ELSE ArgAfterOrder(items, prioritized)

\* the runs of chooseNextPair(items, state): the value returned and the
\* items array left behind
ChooseRuns(items, state) ==
    IF Len(items) < 2 \/ Len(applyWinsFilter(items, state)) < 2
    THEN {[pair |-> NULL, items |-> items]}
    ELSE UNION {{[pair |-> p,
                  items |-> ItemsAfterChoose(items, state, prioritized)] :
                   p \in ChooseFrom(prioritized, state)} :
                 prioritized \in
                   orderByMuPriority(applyWinsFilter(items, state), state)}

\* the values chooseNextPair(items, state) can return
chooseNextPair(items, state) == {r.pair : r \in ChooseRuns(items, state)}

\* ------------------------------------------------------------ unified_app.js
VARIABLES
    state,          \* the state object: ratings, history, lastPair, settings
    filtered,       \* the filtered item pool, rebuilt by rebuildFiltered
    currentPair,    \* NULL or the pair <<A, B>> on display
    hasWinsOnly,    \* the "has wins" checkbox of the filter bar
    stored,         \* localStorage: <<>> or <<the state last saved>>
    selItems,       \* selector specification: the items array of the call
    selState,       \* selector specification: the selection state of the call
    selResult,      \* selector specification: <<>> or <<the value returned>>
    ratState,       \* two-paper arena: its ratings and history
    ratWarm,        \* two-paper arena: the length of the history it starts with
    rawState,       \* state loading: the saved state handed to normalizeState
    normState,      \* state loading: <<>> or <<the value normalizeState returned>>
    scheduleRenderSeq,  \* the request sequence number of renderSchedule
    schedPending,   \* renderSchedule invocations awaiting fetchTopicMatches
    scheduleView,   \* what the schedule element shows
    schedRuns,      \* the oral items of every renderSchedule invocation so far
    categoryFilter  \* legacy controller: the value of the category filter

vars == <<state, filtered, currentPair, hasWinsOnly, stored,
          selItems, selState, selResult, ratState, ratWarm,
          rawState, normState,
          scheduleRenderSeq, schedPending, scheduleView, schedRuns,
          categoryFilter>>
ctlVars == <<state, filtered, currentPair, hasWinsOnly, stored>>
selVars == <<selItems, selState, selResult>>
ratVars == <<ratState, ratWarm>>
normVars == <<rawState, normState>>
schedVars == <<scheduleRenderSeq, schedPending, scheduleView, schedRuns>>
legVars == <<categoryFilter>>

\* RAW_RECORDS: the ids of the loaded papers and their primary category
Ids == 1..NumItems
Cat1(id) == IF id % 2 = 1 THEN "c1" ELSE "c2"

TopNValues == {10, 60}

getDefaultState ==
    [version |-> 2, ratings |-> <<>>, history |-> <<>>, lastPair |-> <<>>,
     mode |-> "active", topN |-> 60, resolveTieNMatches |-> "minimal",
     muPriority |-> "highest", winsOnly |-> FALSE]

DefaultRating ==
    [mu |-> DEFAULT_MU, sigma |-> DEFAULT_SIGMA, n |-> 0,
     wins |-> 0, losses |-> 0, ties |-> 0]

\* getRating(id): the ratings map once the record of id exists
getRating(ratings, id) ==
    IF id \in DOMAIN ratings THEN ratings
    ELSE ratings @@ (id :> DefaultRating)

hydrateItem(ratings, id) ==
    LET r == getRating(ratings, id)[id]
    IN  [id |-> id, mu |-> r.mu, sigma |-> r.sigma, n |-> r.n,
         wins |-> r.wins, cat1 |-> Cat1(id)]

\* RAW_RECORDS.map(hydrateItem) creates the missing rating records
RECURSIVE HydrateAll(_, _)
HydrateAll(ratings, id) ==
    IF id > NumItems THEN ratings
    ELSE HydrateAll(getRating(ratings, id), id + 1)

\* the filtered pool of rebuildFiltered (no search text, no category,
\* session or location filter)
FilteredItems(ratings, winsBox) ==
    LET all == [id \in Ids |-> hydrateItem(ratings, id)]
    IN  Filter(all, LAMBDA it : ~(winsBox /\ it.wins < 1))

\* persistState(): saveState(state)
persistState(s) == <<s>>

\* nextPair without the persistState() that follows a selection
nextPairNoPersist(s, f, cp, sto) ==
    IF Len(f) < 2
    THEN {[state |-> s, filtered |-> f, currentPair |-> cp, stored |-> sto]}
    ELSE {IF run.pair = NULL
          THEN [state |-> s, filtered |-> run.items, currentPair |-> cp,
                stored |-> sto]
          ELSE [state |-> [s EXCEPT !.lastPair = run.pair],
                filtered |-> run.items, currentPair |-> run.pair,
                stored |-> sto] :
            run \in ChooseRuns(f, s)}

\* nextPair() run on state s, pool f, current pair cp and storage sto: the
\* possible results
nextPair(s, f, cp, sto) ==
    IF Len(f) < 2
    THEN {[state |-> s, filtered |-> f, currentPair |-> cp, stored |-> sto]}
    ELSE {IF run.pair = NULL
          THEN [state |-> s, filtered |-> run.items, currentPair |-> cp,
                stored |-> sto]
          ELSE LET s2 == [s EXCEPT !.lastPair = run.pair]
               IN  [state |-> s2, filtered |-> run.items,
                    currentPair |-> run.pair, stored |-> persistState(s2)] :
            run \in ChooseRuns(f, s)}

\* rebuildFiltered(): hydrate every record, filter, then nextPair()
rebuildFiltered(s, cp, winsBox, sto) ==
    LET s1 == [s EXCEPT !.ratings = HydrateAll(s.ratings, 1)]
    IN  nextPair(s1, FilteredItems(s1.ratings, winsBox), cp, sto)

\* applyOutcomeCounters that counts a win of B without the loss of A
applyOutcomeCountersNoLoss(rA, rB, outcome) ==
    IF outcome = OUT_A
    THEN [A |-> [rA EXCEPT !.wins = rA.wins + 1],
          B |-> [rB EXCEPT !.losses = rB.losses + 1]]
    ELSE IF outcome = OUT_B
    THEN [A |-> rA,
          B |-> [rB EXCEPT !.wins = rB.wins + 1]]
    ELSE [A |-> [rA EXCEPT !.ties = rA.ties + 1],
          B |-> [rB EXCEPT !.ties = rB.ties + 1]]

applyOutcomeCounters(rA, rB, outcome) ==
    IF outcome = OUT_A
    THEN [A |-> [rA EXCEPT !.wins = rA.wins + 1],
          B |-> [rB EXCEPT !.losses = rB.losses + 1]]
    ELSE IF outcome = OUT_B
    THEN [A |-> [rA EXCEPT !.losses = rA.losses + 1],
          B |-> [rB EXCEPT !.wins = rB.wins + 1]]
    ELSE [A |-> [rA EXCEPT !.ties = rA.ties + 1],
          B |-> [rB EXCEPT !.ties = rB.ties + 1]]

\* applyJointAdjustment that leaves JOINT_FEEDBACK_SCALE out
applyJointAdjustmentNoScale(rating, direction, kMult) ==
    LET effectiveK == EffectiveK(BASE_K * kMult, rating.sigma)
    IN  [rating EXCEPT
           !.mu = rating.mu + direction * effectiveK,
           !.sigma = DecaySigma(rating.sigma, 99),
           !.n = rating.n + 1]

applyJointAdjustment(rating, direction, kMult) ==
    LET effectiveK == EffectiveK(BASE_K * kMult, rating.sigma)
    IN  [rating EXCEPT
           !.mu = rating.mu
                  + direction * RDiv(effectiveK * JOINT_FEEDBACK_SCALE, 100),
           !.sigma = DecaySigma(rating.sigma, 99),
           !.n = rating.n + 1]

Choices == {"A", "STRONG_A", "B", "STRONG_B", "BOTH", "NEITHER", "SKIP"}

\* a vote map that falls back to the SKIP entry for a label it does not have
VoteMapOrSkip(choice) ==
    IF choice = "A" THEN
        <<[outcome |-> OUT_A, kMult |-> 100, neitherPenaltyApplied |-> FALSE]>>
    ELSE IF choice = "STRONG_A" THEN
        <<[outcome |-> OUT_A, kMult |-> 180, neitherPenaltyApplied |-> FALSE]>>
    ELSE IF choice = "B" THEN
        <<[outcome |-> OUT_B, kMult |-> 100, neitherPenaltyApplied |-> FALSE]>>
    ELSE IF choice = "STRONG_B" THEN
        <<[outcome |-> OUT_B, kMult |-> 180, neitherPenaltyApplied |-> FALSE]>>
    ELSE IF choice = "BOTH" THEN
        <<[outcome |-> OUT_TIE, kMult |-> 80, neitherPenaltyApplied |-> FALSE]>>
    ELSE IF choice = "NEITHER" THEN
        <<[outcome |-> OUT_TIE, kMult |-> 120, neitherPenaltyApplied |-> FALSE]>>
    ELSE <<[outcome |-> NoOutcome, kMult |-> 0, neitherPenaltyApplied |-> FALSE]>>

\* map[choice] of vote: <<cfg>>, or <<>> for a label the map does not have
VoteMap(choice) ==
    IF choice = "A" THEN
        <<[outcome |-> OUT_A, kMult |-> 100, neitherPenaltyApplied |-> FALSE]>>
    ELSE IF choice = "STRONG_A" THEN
        <<[outcome |-> OUT_A, kMult |-> 180, neitherPenaltyApplied |-> FALSE]>>
    ELSE IF choice = "B" THEN
        <<[outcome |-> OUT_B, kMult |-> 100, neitherPenaltyApplied |-> FALSE]>>
    ELSE IF choice = "STRONG_B" THEN
        <<[outcome |-> OUT_B, kMult |-> 180, neitherPenaltyApplied |-> FALSE]>>
    ELSE IF choice = "BOTH" THEN
        <<[outcome |-> OUT_TIE, kMult |-> 80, neitherPenaltyApplied |-> FALSE]>>
    ELSE IF choice = "NEITHER" THEN
        <<[outcome |-> OUT_TIE, kMult |-> 120, neitherPenaltyApplied |-> FALSE]>>
    ELSE IF choice = "SKIP" THEN
        <<[outcome |-> NoOutcome, kMult |-> 0, neitherPenaltyApplied |-> FALSE]>>
    ELSE <<>>

\* the rated vote of the older controller (legacy/web/app.js, lines 268-277):
\* every label goes through updatePair and NEITHER costs both items 10 points
ApplyVoteLegacy(ratings, a, b, choice, cfg) ==
    LET r0 == getRating(getRating(ratings, a), b)
        pen == IF choice = "NEITHER" THEN 10 * SCALE ELSE 0
        pair == updatePair(r0[a], r0[b], cfg.outcome, BASE_K * cfg.kMult)
        cnt == applyOutcomeCounters([pair.A EXCEPT !.mu = pair.A.mu - pen],
                                    [pair.B EXCEPT !.mu = pair.B.mu - pen],
                                    cfg.outcome)
    IN  [r0 EXCEPT ![a] = cnt.A, ![b] = cnt.B]

\* ApplyVote that counts the comparison for every rated paper
ApplyVoteCountAll(ratings, a, b, choice, cfg) ==
    LET r0 == getRating(getRating(ratings, a), b)
        upd == IF choice = "BOTH"
               THEN [A |-> applyJointAdjustment(r0[a], 1, cfg.kMult),
                     B |-> applyJointAdjustment(r0[b], 1, cfg.kMult)]
               ELSE IF choice = "NEITHER"
               THEN [A |-> applyJointAdjustment(r0[a], -1, cfg.kMult),
                     B |-> applyJointAdjustment(r0[b], -1, cfg.kMult)]
               ELSE updatePair(r0[a], r0[b], cfg.outcome, BASE_K * cfg.kMult)
        cnt == applyOutcomeCounters(upd.A, upd.B, cfg.outcome)
    IN  [id \in DOMAIN r0 |->
           IF id = a THEN cnt.A
           ELSE IF id = b THEN cnt.B
           ELSE [r0[id] EXCEPT !.n = @ + 1]]

\* lines 883-895 of vote: the ratings after a rated vote on the ids a, b
ApplyVote(ratings, a, b, choice, cfg) ==
    LET r0 == getRating(getRating(ratings, a), b)
        upd == IF choice = "BOTH"
               THEN [A |-> applyJointAdjustment(r0[a], 1, cfg.kMult),
                     B |-> applyJointAdjustment(r0[b], 1, cfg.kMult)]
               ELSE IF choice = "NEITHER"
               THEN [A |-> applyJointAdjustment(r0[a], -1, cfg.kMult),
                     B |-> applyJointAdjustment(r0[b], -1, cfg.kMult)]
               ELSE updatePair(r0[a], r0[b], cfg.outcome, BASE_K * cfg.kMult)
        cnt == applyOutcomeCounters(upd.A, upd.B, cfg.outcome)
    IN  [r0 EXCEPT ![a] = cnt.A, ![b] = cnt.B]

\* VoteEntry that writes A.id into both id fields
VoteEntrySameId(a, b, choice, cfg) ==
    [a |-> a, b |-> a, outcome |-> cfg.outcome, choice |-> choice,
     kMult |-> IF cfg.outcome = NoOutcome THEN 0 ELSE cfg.kMult,
     neitherPenaltyApplied |->
        IF cfg.outcome = NoOutcome THEN FALSE ELSE cfg.neitherPenaltyApplied]

\* the history entry vote pushes (the timestamp ts is left out)
VoteEntry(a, b, choice, cfg) ==
    [a |-> a, b |-> b, outcome |-> cfg.outcome, choice |-> choice,
     kMult |-> IF cfg.outcome = NoOutcome THEN 0 ELSE cfg.kMult,
     neitherPenaltyApplied |->
        IF cfg.outcome = NoOutcome THEN FALSE ELSE cfg.neitherPenaltyApplied]

\* ReplayEntry that replays every entry with kMult 1.0
ReplayEntryFlatK(ratings, h) ==
    LET r0 == getRating(getRating(ratings, h.a), h.b)
        pen == IF h.neitherPenaltyApplied THEN 10 * SCALE ELSE 0
        pair == updatePair(r0[h.a], r0[h.b], h.outcome, BASE_K * 100)
        upd == IF h.choice = "BOTH"
               THEN [A |-> applyJointAdjustment(r0[h.a], 1, 100),
                     B |-> applyJointAdjustment(r0[h.b], 1, 100)]
               ELSE IF h.choice = "NEITHER"
               THEN [A |-> applyJointAdjustment(r0[h.a], -1, 100),
                     B |-> applyJointAdjustment(r0[h.b], -1, 100)]
               ELSE [A |-> [pair.A EXCEPT !.mu = pair.A.mu - pen],
                     B |-> [pair.B EXCEPT !.mu = pair.B.mu - pen]]
        cnt == applyOutcomeCounters(upd.A, upd.B, h.outcome)
    IN  [r0 EXCEPT ![h.a] = cnt.A, ![h.b] = cnt.B]

\* ReplayEntry that takes the 10 points of a flagged entry whatever its label
ReplayEntryPenalizeJoint(ratings, h) ==
    LET r0 == getRating(getRating(ratings, h.a), h.b)
        pen == IF h.neitherPenaltyApplied THEN 10 * SCALE ELSE 0
        pair == updatePair(r0[h.a], r0[h.b], h.outcome, BASE_K * h.kMult)
        upd == IF h.choice = "BOTH"
               THEN [A |-> applyJointAdjustment(r0[h.a], 1, h.kMult),
                     B |-> applyJointAdjustment(r0[h.b], 1, h.kMult)]
               ELSE IF h.choice = "NEITHER"
               THEN [A |-> applyJointAdjustment(r0[h.a], -1, h.kMult),
                     B |-> applyJointAdjustment(r0[h.b], -1, h.kMult)]
               ELSE pair
        cnt == applyOutcomeCounters([upd.A EXCEPT !.mu = upd.A.mu - pen],
                                    [upd.B EXCEPT !.mu = upd.B.mu - pen],
                                    h.outcome)
    IN  [r0 EXCEPT ![h.a] = cnt.A, ![h.b] = cnt.B]

\* lines 915-931 of undo: the ratings after replaying the rated entry h
ReplayEntry(ratings, h) ==
    LET r0 == getRating(getRating(ratings, h.a), h.b)
        pen == IF h.neitherPenaltyApplied THEN 10 * SCALE ELSE 0
        pair == updatePair(r0[h.a], r0[h.b], h.outcome, BASE_K * h.kMult)
        upd == IF h.choice = "BOTH"
               THEN [A |-> applyJointAdjustment(r0[h.a], 1, h.kMult),
                     B |-> applyJointAdjustment(r0[h.b], 1, h.kMult)]
               ELSE IF h.choice = "NEITHER"
               THEN [A |-> applyJointAdjustment(r0[h.a], -1, h.kMult),
                     B |-> applyJointAdjustment(r0[h.b], -1, h.kMult)]
               ELSE [A |-> [pair.A EXCEPT !.mu = pair.A.mu - pen],
                     B |-> [pair.B EXCEPT !.mu = pair.B.mu - pen]]
        cnt == applyOutcomeCounters(upd.A, upd.B, h.outcome)
    IN  [r0 EXCEPT ![h.a] = cnt.A, ![h.b] = cnt.B]

\* Replay that does not push the skip entries back
RECURSIVE ReplayDropSkips(_, _, _)
ReplayDropSkips(ratings, hist, entries) ==
    IF entries = <<>> THEN [ratings |-> ratings, history |-> hist]
    ELSE IF Head(entries).outcome = NoOutcome
    THEN ReplayDropSkips(ratings, hist, Tail(entries))
    ELSE Value({ReplayDropSkips(r, h, Tail(entries)) :
                  r \in {ReplayEntry(ratings, Head(entries))},
                  h \in {Append(hist, Head(entries))}})

\* history.forEach of undo (lines 910-933): the ratings and the history
\* rebuilt from the entries still to replay
RECURSIVE Replay(_, _, _)
Replay(ratings, hist, entries) ==
    IF entries = <<>> THEN [ratings |-> ratings, history |-> hist]
    ELSE IF Head(entries).outcome = NoOutcome
    THEN Replay(ratings, Append(hist, Head(entries)), Tail(entries))
    ELSE Value({Replay(r, h, Tail(entries)) :
                  r \in {ReplayEntry(ratings, Head(entries))},
                  h \in {Append(hist, Head(entries))}})

\* in how many places the settings s, winsBox differ from the defaults
CfgDelta(s, winsBox) ==
    (IF s.mode # getDefaultState.mode THEN 1 ELSE 0)
    + (IF s.muPriority # getDefaultState.muPriority THEN 1 ELSE 0)
    + (IF s.resolveTieNMatches # getDefaultState.resolveTieNMatches
       THEN 1 ELSE 0)
    + (IF s.winsOnly # getDefaultState.winsOnly THEN 1 ELSE 0)
    + (IF s.topN # getDefaultState.topN THEN 1 ELSE 0)
    + (IF winsBox THEN 1 ELSE 0)

\* assign the controller variables from a result of nextPair
Become(o) ==
    /\ state' = o.state
    /\ filtered' = o.filtered
    /\ currentPair' = o.currentPair
    /\ stored' = o.stored

\* boot(): no saved state, the CSV is loaded, loadCSVFromText ends in
\* rebuildFiltered()
CtlInit ==
    /\ hasWinsOnly = FALSE
    /\ \E o \in rebuildFiltered(getDefaultState, NULL, FALSE, <<>>) :
         /\ state = o.state
         /\ filtered = o.filtered
         /\ currentPair = o.currentPair
         /\ stored = o.stored

\* the selector specification before any input is drawn
SelIdle ==
    /\ selItems = <<>>
    /\ selState = getDefaultState
    /\ selResult = <<>>

\* the two-paper arena before it is set up
RatIdle ==
    /\ ratState = getDefaultState
    /\ ratWarm = 0

\* nothing is being loaded
NormIdle ==
    /\ rawState = <<>>
    /\ normState = <<>>

\* renderSchedule has not been called
SchedIdle ==
    /\ scheduleRenderSeq = 0
    /\ schedPending = {}
    /\ scheduleView = [kind |-> "blank", oral |-> {}]
    /\ schedRuns = <<>>

\* the category filter shows "All categories"
LegIdle == categoryFilter = ""

Init == CtlInit /\ SelIdle /\ RatIdle /\ NormIdle /\ SchedIdle /\ LegIdle

\* VoteState without the early return for a null outcome: the skip runs
\* through the rated path, where null counts as 0
VoteStateNoSkip(s, cp, choice) ==
    LET cfg == VoteMap(choice)[1]
        rated == IF cfg.outcome = NoOutcome
                 THEN [cfg EXCEPT !.outcome = OUT_B] ELSE cfg
    IN  [s EXCEPT
           !.ratings = ApplyVote(@, cp[1].id, cp[2].id, choice, rated),
           !.history = Append(@, VoteEntry(cp[1].id, cp[2].id, choice, cfg))]

\* lines 873-896 of vote for a label of the map: the state object once the
\* entry is pushed, before persistState()
VoteState(s, cp, choice) ==
    LET cfg == VoteMap(choice)[1]
        A == cp[1]
        B == cp[2]
    IN  IF cfg.outcome = NoOutcome
        THEN [s EXCEPT
                !.history = Append(@, VoteEntry(A.id, B.id, choice, cfg))]
        ELSE [s EXCEPT
                !.ratings = ApplyVote(@, A.id, B.id, choice, cfg),
                !.history = Append(@, VoteEntry(A.id, B.id, choice, cfg))]

\* lines 905-933 of undo on a non-empty history: the state object after the
\* replay, before rebuildFiltered()
UndoState(s) ==
    LET history == SubSeq(s.history, 1, Len(s.history) - 1)
        rep == Replay(<<>>, <<>>, history)
    IN  [s EXCEPT !.ratings = rep.ratings,
                  !.history = rep.history,
                  !.lastPair = <<>>]

\* vote(choice), lines 857-900
Vote(choice) ==
    /\ UNCHANGED <<hasWinsOnly, selVars, ratVars,
                 normVars, schedVars, legVars>>
    /\ IF currentPair = NULL \/ VoteMap(choice) = <<>>
       THEN UNCHANGED <<state, filtered, currentPair, stored>>
       ELSE
         LET s1 == VoteState(state, currentPair, choice)
         IN  /\ Len(state.history) < MaxHist
             /\ \E o \in rebuildFiltered(s1, currentPair, hasWinsOnly,
                                         persistState(s1)) : Become(o)

\* undo(), lines 902-937
Undo ==
    /\ UNCHANGED <<hasWinsOnly, selVars, ratVars,
                 normVars, schedVars, legVars>>
    /\ IF Len(state.history) = 0
       THEN UNCHANGED <<state, filtered, currentPair, stored>>
       ELSE
         \E o \in rebuildFiltered(UndoState(state), currentPair,
                                  hasWinsOnly, stored) :
            Become([o EXCEPT !.stored = persistState(o.state)])

\* the click handler of btnReset once confirmed, lines 1093-1108
Reset ==
    /\ UNCHANGED <<hasWinsOnly, selVars, ratVars,
                 normVars, schedVars, legVars>>
    /\ LET next == getDefaultState
           s1 == [state EXCEPT !.version = next.version,
                               !.ratings = next.ratings,
                               !.history = next.history,
                               !.lastPair = next.lastPair,
                               !.mode = next.mode,
                               !.topN = next.topN,
                               !.resolveTieNMatches = next.resolveTieNMatches,
                               !.muPriority = next.muPriority,
                               !.winsOnly = next.winsOnly]
       IN  \E o \in rebuildFiltered(s1, currentPair, hasWinsOnly,
                                    persistState(s1)) : Become(o)

\* a settings handler that stores s1, persists and calls nextPair()
ChangeSetting(s1) ==
    /\ s1 # state
    /\ CfgDelta(s1, hasWinsOnly) <= MaxCfgDelta
    /\ UNCHANGED <<hasWinsOnly, selVars, ratVars,
                 normVars, schedVars, legVars>>
    /\ \E o \in nextPair(s1, filtered, currentPair, persistState(s1)) :
         Become(o)

\* change handlers of the mode, resolveTieNMatches, muPriority and winsOnly
\* controls, lines 1145-1167
SetMode(v) == ChangeSetting([state EXCEPT !.mode = v])
SetResolveTieNMatches(v) ==
    ChangeSetting([state EXCEPT !.resolveTieNMatches = v])
SetMuPriority(v) == ChangeSetting([state EXCEPT !.muPriority = v])
SetWinsOnly(v) == ChangeSetting([state EXCEPT !.winsOnly = v])

\* input handler of topN, lines 1169-1172: persists, no nextPair()
SetTopN(v) ==
    /\ v # state.topN
    /\ CfgDelta([state EXCEPT !.topN = v], hasWinsOnly) <= MaxCfgDelta
    /\ state' = [state EXCEPT !.topN = v]
    /\ stored' = persistState(state')
    /\ UNCHANGED <<filtered, currentPair, hasWinsOnly, selVars, ratVars,
                 normVars, schedVars, legVars>>

\* change handler of the hasWinsOnly filter box, line 1143: rebuildFiltered
SetHasWinsOnly(v) ==
    /\ v # hasWinsOnly
    /\ CfgDelta(state, v) <= MaxCfgDelta
    /\ hasWinsOnly' = v
    /\ UNCHANGED <<selVars, ratVars,
                 normVars, schedVars, legVars>>
    /\ \E o \in rebuildFiltered(state, currentPair, v, stored) : Become(o)

\* a label no button sends
UnknownChoice == "MAYBE"

VoteAny == \E choice \in Choices \cup {UnknownChoice} : Vote(choice)
SetModeAny == \E v \in Modes : SetMode(v)
SetResolveTieNMatchesAny == \E v \in NStrategies : SetResolveTieNMatches(v)
SetMuPriorityAny == \E v \in MuPriorities : SetMuPriority(v)
SetWinsOnlyAny == \E v \in BOOLEAN : SetWinsOnly(v)
SetTopNAny == \E v \in TopNValues : SetTopN(v)
SetHasWinsOnlyAny == \E v \in BOOLEAN : SetHasWinsOnly(v)

Next ==
    \/ VoteAny
    \/ Undo
    \/ Reset
    \/ SetModeAny
    \/ SetResolveTieNMatchesAny
    \/ SetMuPriorityAny
    \/ SetWinsOnlyAny
    \/ SetTopNAny
    \/ SetHasWinsOnlyAny

Spec == Init /\ [][Next]_vars

\* ------------------------------------------- chooseNextPair as a function
\* The inputs: a pool of up to MaxPool items with the ids 1, 2, ..., each a
\* fresh item, an item that has a tie behind it or an item that won once,
\* of either category; every mode, priority, n strategy and winsOnly value;
\* lastPair empty or two items of the pool.
SelShapes ==
    {[mu |-> DEFAULT_MU, sigma |-> DEFAULT_SIGMA, n |-> 0, wins |-> 0],
     [mu |-> DEFAULT_MU, sigma |-> DecaySigma(DEFAULT_SIGMA, 99), n |-> 1,
      wins |-> 0],
     [mu |-> DEFAULT_MU + 16 * SCALE, sigma |-> DecaySigma(DEFAULT_SIGMA, 100),
      n |-> 1, wins |-> 1]}

SelItemsAt(id) ==
    {[id |-> id, mu |-> sh.mu, sigma |-> sh.sigma, n |-> sh.n,
      wins |-> sh.wins, cat1 |-> c] : sh \in SelShapes, c \in {"c1", "c2"}}

SelPools ==
    UNION {{f \in [1..k -> UNION {SelItemsAt(i) : i \in 1..k}] :
              \A i \in 1..k : f[i].id = i} : k \in 0..MaxPool}

SelLastPairs(items) ==
    {<<>>} \cup {<<items[ij[1]], items[ij[2]]>> :
                   ij \in {x \in (1..Len(items)) \X (1..Len(items)) :
                             x[1] < x[2]}}

SelStates(items) ==
    {[getDefaultState EXCEPT !.mode = m, !.muPriority = p,
                             !.resolveTieNMatches = t, !.winsOnly = w,
                             !.lastPair = l] :
        m \in Modes, p \in MuPriorities, t \in NStrategies, w \in BOOLEAN,
        l \in SelLastPairs(items)}

SelInit ==
    /\ CtlInit
    /\ RatIdle
    /\ NormIdle
    /\ SchedIdle
    /\ LegIdle
    /\ selItems \in SelPools
    /\ selState \in SelStates(selItems)
    /\ selResult = <<>>

\* one call chooseNextPair(selItems, selState)
SelCall ==
    /\ selResult = <<>>
    /\ \E run \in ChooseRuns(selItems, selState) :
         /\ selResult' = <<run.pair>>
         /\ selItems' = run.items
    /\ selState' = selState
    /\ UNCHANGED <<ctlVars, ratVars, normVars, schedVars, legVars>>

SelNext == SelCall

SelSpec == SelInit /\ [][SelNext]_vars

\* ------------------------------------------ chooseNextPair in bubble mode
\* Calls in bubble mode on a pool larger than the boundary window: the
\* items 1, 2, ... have decreasing mu, one point apart; two of them, at two
\* of four positions, are of category c2 and have n 0 or 1, the others are
\* fresh items of category c1; topN is 1 or 10.
BubbleSpots == {2, 5, MaxBubblePool - 7, MaxBubblePool - 1}

BubbleItem(id, cat, n) ==
    [id |-> id, mu |-> DEFAULT_MU + (MaxBubblePool - id) * SCALE,
     sigma |-> IF n = 0 THEN DEFAULT_SIGMA ELSE DecaySigma(DEFAULT_SIGMA, 99),
     n |-> n, wins |-> 0, cat1 |-> cat]

BubblePools ==
    {[id \in 1..MaxBubblePool |->
        IF id = d1 THEN BubbleItem(id, "c2", n1)
        ELSE IF id = d2 THEN BubbleItem(id, "c2", n2)
        ELSE BubbleItem(id, "c1", 0)] :
       d1 \in BubbleSpots, d2 \in BubbleSpots, n1 \in 0..1, n2 \in 0..1}

BubbleStates ==
    {[getDefaultState EXCEPT !.mode = "bubble", !.topN = t, !.muPriority = p,
                             !.resolveTieNMatches = r] :
        t \in {1, 10}, p \in {"highest", "lowest"},
        r \in {"minimal", "maximal"}}

BubbleInit ==
    /\ CtlInit
    /\ RatIdle
    /\ NormIdle
    /\ SchedIdle
    /\ LegIdle
    /\ selItems \in BubblePools
    /\ selState \in BubbleStates
    /\ selResult = <<>>

BubbleNext == SelCall

BubbleSpec == BubbleInit /\ [][BubbleNext]_vars

\* -------------------------------------------------------- two-paper arena
\* The controller on a pool where the same two papers are compared over and
\* over: the history starts with ratWarm votes "A" on the pair (1, 2), then
\* up to MaxRateOps votes of any label follow, each of which can be undone.
ArenaPairs ==
    {<<hydrateItem(<<>>, 1), hydrateItem(<<>>, 2)>>,
     <<hydrateItem(<<>>, 2), hydrateItem(<<>>, 1)>>}

RECURSIVE WarmState(_)
WarmState(k) ==
    IF k = 0
    THEN [getDefaultState EXCEPT !.ratings = HydrateAll(<<>>, 1)]
    ELSE VoteState(WarmState(k - 1),
                   <<hydrateItem(<<>>, 1), hydrateItem(<<>>, 2)>>, "A")

RatInit ==
    /\ CtlInit
    /\ SelIdle
    /\ NormIdle
    /\ SchedIdle
    /\ LegIdle
    /\ ratWarm \in 0..MaxWarm
    /\ ratState = WarmState(ratWarm)

RatVote(choice, cp) ==
    /\ Len(ratState.history) < ratWarm + MaxRateOps
    /\ ratState' = VoteState(ratState, cp, choice)
    /\ UNCHANGED <<ratWarm, ctlVars, selVars, normVars, schedVars, legVars>>

RatUndo ==
    /\ Len(ratState.history) > ratWarm
    /\ ratState' = [UndoState(ratState) EXCEPT
                      !.ratings = HydrateAll(@, 1)]
    /\ UNCHANGED <<ratWarm, ctlVars, selVars, normVars, schedVars, legVars>>

RatVoteAny == \E choice \in Choices, cp \in ArenaPairs : RatVote(choice, cp)

RatNext == RatVoteAny \/ RatUndo

RatingSpec == RatInit /\ [][RatNext]_vars

\* ------------------------------------------------- votes on a loaded state
\* The controller after importState / loadState of a saved state whose
\* ratings map gives papers 1 and 2 any mu on a grid around the default and
\* a sigma between the default and the floor, with an empty history; then
\* votes of any label on the two papers.
MuStep == 250 * SCALE

LoadedMus == {DEFAULT_MU + k * MuStep : k \in (0 - MaxMuSteps)..MaxMuSteps}

LoadedSigmas == {DEFAULT_SIGMA, DecaySigma(DEFAULT_SIGMA, 100), MIN_SIGMA}

LoadedRatings ==
    {[mu |-> m, sigma |-> sg, n |-> 1, wins |-> 0, losses |-> 0, ties |-> 1] :
       m \in LoadedMus, sg \in LoadedSigmas}

LoadInit ==
    /\ CtlInit
    /\ SelIdle
    /\ NormIdle
    /\ SchedIdle
    /\ LegIdle
    /\ ratWarm = 0
    /\ \E rA \in LoadedRatings, rB \in LoadedRatings :
         ratState = [getDefaultState EXCEPT
                       !.ratings = HydrateAll(<<rA, rB>>, 1)]

LoadNext == RatVoteAny

LoadedSpec == LoadInit /\ [][LoadNext]_vars

\* ------------------------------------------------------- loading a state
\* A saved history entry is a record with a kind ("null", "primitive" or
\* "object"; an array is an object without the fields) and the fields of an
\* object.  Missing stands for a field that is undefined, null or empty
\* where the code only tests its truth or its type; an outcome is a number,
\* NoOutcome (null), Missing (undefined) or OutcomeText (a string).
Missing == 0 - 2
OutcomeText == 0 - 3

\* normalizeHistoryEntry that drops every entry without both ids
normalizeHistoryEntryStrict(h, now) ==
    IF h.kind # "object" THEN NULL
    ELSE IF h.a = Missing \/ h.b = Missing THEN NULL
    ELSE
      LET outcome == IF h.outcome >= 0 THEN h.outcome ELSE NoOutcome
      IN  <<[kind |-> "object", a |-> h.a, b |-> h.b, outcome |-> outcome,
             choice |-> IF h.choice # "" THEN h.choice
                        ELSE IF outcome = OUT_A THEN "A"
                        ELSE IF outcome = OUT_B THEN "B"
                        ELSE IF outcome = OUT_TIE THEN "BOTH" ELSE "SKIP",
             kMult |-> IF h.kMult # Missing THEN h.kMult
                       ELSE IF outcome \in {OUT_A, OUT_B} THEN 100
                       ELSE IF outcome = OUT_TIE THEN 75 ELSE 0,
             neitherPenaltyApplied |->
                 h.neitherPenaltyApplied \/ h.choice = "NEITHER",
             ts |-> IF h.ts # Missing THEN h.ts ELSE now]>>

\* normalizeHistoryEntry(h), lines 34-64, new Date() being now: null or
\* <<the normalized entry>>
normalizeHistoryEntry(h, now) ==
    IF h.kind # "object" THEN NULL
    ELSE IF h.outcome # NoOutcome /\ h.outcome # Missing
            /\ (h.a = Missing \/ h.b = Missing) THEN NULL
    ELSE
      LET outcome == IF h.outcome >= 0 THEN h.outcome ELSE NoOutcome
      IN  <<[kind |-> "object", a |-> h.a, b |-> h.b, outcome |-> outcome,
             choice |-> IF h.choice # "" THEN h.choice
                        ELSE IF outcome = OUT_A THEN "A"
                        ELSE IF outcome = OUT_B THEN "B"
                        ELSE IF outcome = OUT_TIE THEN "BOTH" ELSE "SKIP",
             kMult |-> IF h.kMult # Missing THEN h.kMult
                       ELSE IF outcome \in {OUT_A, OUT_B} THEN 100
                       ELSE IF outcome = OUT_TIE THEN 75 ELSE 0,
             neitherPenaltyApplied |->
                 h.neitherPenaltyApplied \/ h.choice = "NEITHER",
             ts |-> IF h.ts # Missing THEN h.ts ELSE now]>>

\* raw.history.map(normalizeHistoryEntry).filter(Boolean)
RECURSIVE NormalizeHistory(_, _)
NormalizeHistory(hist, now) ==
    IF hist = <<>> THEN <<>>
    ELSE normalizeHistoryEntry(Head(hist), now)
           \o NormalizeHistory(Tail(hist), now)

\* the fields of a state object other than its history, as a saved object
\* carries them
StateFields(s) == [k \in DOMAIN s \ {"history"} |-> s[k]]

\* normalizeState(raw), lines 66-74; raw is <<>> (nothing saved) or
\* <<the saved object>>, whose fields other than history are raw[1].fields
\* and whose ratings field is truthy iff raw[1].hasRatings; the result is
\* null or the state object {...getDefaultState(), ...raw, version, history}
normalizeState(raw, now) ==
    IF raw = <<>> THEN NULL
    ELSE IF ~raw[1].hasRatings THEN NULL
    ELSE <<[(raw[1].fields @@ getDefaultState) EXCEPT
              !.version = 2,
              !.history = IF raw[1].historyIsArray
                          THEN NormalizeHistory(raw[1].history, now)
                          ELSE <<>>]>>

\* loadState() after saveState(s): the object JSON.parse gives back for the
\* text JSON.stringify wrote.  Ids, labels, finite numbers, booleans and
\* null come back as they were; every entry is an object with the timestamp
\* vote gave it (1, before the values of new Date() in Times).
SavedForm(s) ==
    [hasRatings |-> TRUE, historyIsArray |-> TRUE,
     history |-> [i \in 1..Len(s.history) |->
                    [kind |-> "object", a |-> s.history[i].a,
                     b |-> s.history[i].b, outcome |-> s.history[i].outcome,
                     choice |-> s.history[i].choice,
                     kMult |-> s.history[i].kMult,
                     neitherPenaltyApplied |->
                         s.history[i].neitherPenaltyApplied,
                     ts |-> 1]],
     fields |-> StateFields(s)]

\* the saved entries of the model
RawEntries ==
    {[kind |-> k, a |-> Missing, b |-> Missing, outcome |-> Missing,
      choice |-> "", kMult |-> Missing, neitherPenaltyApplied |-> FALSE,
      ts |-> Missing] : k \in {"null", "primitive", "object"}}
    \cup
    {[kind |-> "object", a |-> a, b |-> b, outcome |-> o, choice |-> c,
      kMult |-> k, neitherPenaltyApplied |-> FALSE, ts |-> t] :
        a \in {Missing, 1}, b \in {Missing, 2},
        o \in {Missing, NoOutcome, OutcomeText, OUT_A, OUT_TIE},
        c \in {"", "NEITHER"}, k \in {Missing, 120}, t \in {Missing, 1}}

RawHistories ==
    UNION {[1..k -> RawEntries] : k \in 0..MaxRawLen}

\* what loadState() or an imported file can hold
RawStates ==
    {<<>>,
     <<[hasRatings |-> FALSE, historyIsArray |-> TRUE, history |-> <<>>,
        fields |-> [version |-> 1]]>>,
     <<[hasRatings |-> TRUE, historyIsArray |-> FALSE, history |-> <<>>,
        fields |-> [version |-> 1, ratings |-> <<>>]]>>}
    \cup {<<[hasRatings |-> TRUE, historyIsArray |-> TRUE, history |-> h,
             fields |-> [version |-> 1, ratings |-> <<>>]]>> :
            h \in RawHistories}

\* the values new Date() can take; saved timestamps are earlier
Times == {2, 3}

NormInit ==
    /\ CtlInit
    /\ SelIdle
    /\ RatIdle
    /\ SchedIdle
    /\ LegIdle
    /\ rawState \in RawStates
    /\ normState = <<>>

\* line 18 / importState: normalizeState(loadState())
NormCall ==
    /\ normState = <<>>
    /\ \E now \in Times : normState' = <<normalizeState(rawState, now)>>
    /\ UNCHANGED <<rawState, ctlVars, selVars, ratVars, schedVars, legVars>>

\* the normalized state is saved (persistState) and loaded again
NormReload ==
    /\ normState # <<>>
    /\ normState[1] # NULL
    /\ rawState' = <<[hasRatings |-> TRUE, historyIsArray |-> TRUE,
                      history |-> normState[1][1].history,
                      fields |-> StateFields(normState[1][1])]>>
    /\ rawState' # rawState
    /\ normState' = <<>>
    /\ UNCHANGED <<ctlVars, selVars, ratVars, schedVars, legVars>>

NormNext == NormCall \/ NormReload

NormSpec == NormInit /\ [][NormNext]_vars

\* ------------------------------------------------------- renderSchedule
\* renderSchedule() reads the filtered pool, keeps the items that are not in
\* a poster hall (oralItems) and, unless there are none, asks the server for
\* topic-match scores and renders when the answer arrives.  An invocation
\* is given by the ids of its oral items; papers 1 and 2 have oral slots.

\* renderSchedule up to the await of line 425 (lines 410-425), as
\* invocation number Len(schedRuns) + 1
RenderScheduleStart(oralItems) ==
    /\ Len(schedRuns) < MaxSchedCalls
    /\ schedRuns' = Append(schedRuns, oralItems)
    /\ IF oralItems = {}
       THEN /\ scheduleView' = [kind |-> "empty", oral |-> {}]
            /\ UNCHANGED <<scheduleRenderSeq, schedPending>>
       ELSE /\ scheduleRenderSeq' = scheduleRenderSeq + 1
            /\ scheduleView' = [kind |-> "computing", oral |-> oralItems]
            /\ schedPending' = schedPending \cup
                   {[runId |-> scheduleRenderSeq + 1,
                     call |-> Len(schedRuns) + 1, oral |-> oralItems]}
    /\ UNCHANGED <<ctlVars, selVars, ratVars, normVars, legVars>>

\* fetchTopicMatches has answered the invocation inv: lines 426-556
RenderScheduleResume(inv) ==
    /\ inv \in schedPending
    /\ schedPending' = schedPending \ {inv}
    /\ IF inv.runId # scheduleRenderSeq
       THEN scheduleView' = scheduleView
       ELSE scheduleView' = [kind |-> "result", oral |-> inv.oral]
    /\ UNCHANGED <<scheduleRenderSeq, schedRuns,
                   ctlVars, selVars, ratVars, normVars, legVars>>

RenderScheduleStartAny == \E oralItems \in SUBSET {1, 2} : RenderScheduleStart(oralItems)
RenderScheduleResumeAny == \E inv \in schedPending : RenderScheduleResume(inv)

SchedInit ==
    CtlInit /\ SelIdle /\ RatIdle /\ NormIdle /\ SchedIdle /\ LegIdle

SchedNext == RenderScheduleStartAny \/ RenderScheduleResumeAny

SchedSpec == SchedInit /\ [][SchedNext]_vars

\* ------------------------------------------ importState, votes and undo
\* The unified controller when a saved state is imported: the file holds
\* the default settings, an empty ratings object and a history of up to
\* MaxRawLen rated entries on the papers 1 and 2, written by either
\* controller (any label, the penalty flag set or not); one file has no
\* ratings field.  Votes and undos come before and after the import.
SavedEntries ==
    {[kind |-> "object", a |-> 1, b |-> 2, outcome |-> o, choice |-> c,
      kMult |-> 120, neitherPenaltyApplied |-> f, ts |-> 1] :
        o \in {OUT_A, OUT_TIE}, c \in {"A", "BOTH", "NEITHER"}, f \in BOOLEAN}

SavedStates ==
    {[hasRatings |-> FALSE, historyIsArray |-> TRUE, history |-> <<>>,
      fields |-> [version |-> 2]]}
    \cup {[hasRatings |-> TRUE, historyIsArray |-> TRUE, history |-> h,
           fields |-> StateFields(getDefaultState)] :
              h \in UNION {[1..k -> SavedEntries] : k \in 0..MaxRawLen}}

\* importState(jsonText), lines 1017-1040, and the catch of its caller for
\* a file normalizeState rejects; the first import of the session
ImportState(raw) ==
    /\ rawState = <<>>
    /\ rawState' = <<raw>>
    /\ \E now \in Times :
         LET normalized == normalizeState(<<raw>>, now)
         IN  /\ normState' = <<normalized>>
             /\ IF normalized = NULL
                THEN UNCHANGED <<state, filtered, currentPair, stored>>
                ELSE \E o \in rebuildFiltered(normalized[1], currentPair,
                                              hasWinsOnly,
                                              persistState(normalized[1])) :
                        Become(o)
    /\ UNCHANGED <<hasWinsOnly, selVars, ratVars, schedVars, legVars>>

ImportStateAny == \E raw \in SavedStates : ImportState(raw)

ImportNext == ImportStateAny \/ VoteAny \/ Undo

ImportSpec == Init /\ [][ImportNext]_vars

\* ------------------------------------------------------ legacy/web/app.js
\* The older controller.  Its state object, item pool, current pair and
\* storage are the variables state, filtered, currentPair and stored; its
\* state object has no muPriority, resolveTieNMatches or winsOnly field, for
\* which the selector takes "highest", "minimal" and false, the values the
\* record of the model carries.  Every rated vote goes through updatePair.
LegacyCategories == {"", "c1", "c2"}

\* NEITHER_PENALTY of app.js, in 1/SCALE
NEITHER_PENALTY == 10 * SCALE

\* the filter of rebuildFiltered (app.js lines 126-139) with no search text
\* and no session or location filter
LegacyFilteredItems(ratings, cat) ==
    LET all == [id \in Ids |-> hydrateItem(ratings, id)]
    IN  Filter(all, LAMBDA it : cat = "" \/ it.cat1 = cat)

\* nextPair() of app.js, lines 206-227
LegacyNextPair(s, f, cp, sto) ==
    IF Len(f) < 2
    THEN {[state |-> s, filtered |-> f, currentPair |-> cp, stored |-> sto]}
    ELSE {IF run.pair = NULL
          THEN [state |-> s, filtered |-> run.items, currentPair |-> cp,
                stored |-> sto]
          ELSE LET s2 == [s EXCEPT !.lastPair = run.pair]
               IN  [state |-> s2, filtered |-> run.items,
                    currentPair |-> run.pair, stored |-> <<s2>>] :
            run \in ChooseRuns(f, s)}

\* rebuildFiltered() of app.js, lines 120-144
LegacyRebuildFiltered(s, cp, cat, sto) ==
    LET s1 == [s EXCEPT !.ratings = HydrateAll(s.ratings, 1)]
    IN  LegacyNextPair(s1, LegacyFilteredItems(s1.ratings, cat), cp, sto)

\* map[choice] of vote in app.js, lines 238-246
LegacyVoteMap(choice) ==
    IF choice = "NEITHER"
    THEN <<[outcome |-> OUT_TIE, kMult |-> 120, neitherPenaltyApplied |-> TRUE]>>
    ELSE VoteMap(choice)

\* updatePair, the penalty and the counters on the ids a, b (app.js lines
\* 268-277 of vote, 308-316 of undo)
LegacyRate(ratings, a, b, outcome, kMult, penalty) ==
    LET r0 == getRating(getRating(ratings, a), b)
        pen == IF penalty THEN NEITHER_PENALTY ELSE 0
        pair == updatePair(r0[a], r0[b], outcome, BASE_K * kMult)
        cnt == applyOutcomeCounters([pair.A EXCEPT !.mu = pair.A.mu - pen],
                                    [pair.B EXCEPT !.mu = pair.B.mu - pen],
                                    outcome)
    IN  [r0 EXCEPT ![a] = cnt.A, ![b] = cnt.B]

\* vote of app.js for a label of the map, up to the push of the entry
LegacyVoteState(s, cp, choice) ==
    LET cfg == LegacyVoteMap(choice)[1]
        A == cp[1]
        B == cp[2]
    IN  IF cfg.outcome = NoOutcome
        THEN [s EXCEPT
                !.history = Append(@, VoteEntry(A.id, B.id, choice, cfg))]
        ELSE [s EXCEPT
                !.ratings = LegacyRate(@, A.id, B.id, cfg.outcome, cfg.kMult,
                                       cfg.neitherPenaltyApplied),
                !.history = Append(@, VoteEntry(A.id, B.id, choice, cfg))]

\* the loop of undo in app.js, lines 303-318
RECURSIVE LegacyReplay(_, _, _)
LegacyReplay(ratings, hist, entries) ==
    IF entries = <<>> THEN [ratings |-> ratings, history |-> hist]
    ELSE IF Head(entries).outcome = NoOutcome
    THEN LegacyReplay(ratings, Append(hist, Head(entries)), Tail(entries))
    ELSE Value({LegacyReplay(r, h, Tail(entries)) :
                  r \in {LegacyRate(ratings, Head(entries).a, Head(entries).b,
                                    Head(entries).outcome, Head(entries).kMult,
                                    Head(entries).neitherPenaltyApplied)},
                  h \in {Append(hist, Head(entries))}})

\* in how many places the mode and the category filter differ from the
\* values they have after boot
LegacyCfgDelta(s, cat) ==
    (IF s.mode # getDefaultState.mode THEN 1 ELSE 0)
    + (IF cat # "" THEN 1 ELSE 0)

\* boot() of app.js with nothing saved: loadCSVFromText ends in
\* rebuildFiltered()
LegacyInit ==
    /\ SelIdle
    /\ RatIdle
    /\ NormIdle
    /\ SchedIdle
    /\ LegIdle
    /\ hasWinsOnly = FALSE
    /\ \E o \in LegacyRebuildFiltered(getDefaultState, NULL, "", <<>>) :
         /\ state = o.state
         /\ filtered = o.filtered
         /\ currentPair = o.currentPair
         /\ stored = o.stored

LegacyFrame ==
    UNCHANGED <<hasWinsOnly, selVars, ratVars, normVars, schedVars>>

\* vote(choice) of app.js, lines 235-290
LegacyVote(choice) ==
    /\ LegacyFrame
    /\ UNCHANGED categoryFilter
    /\ IF currentPair = NULL \/ LegacyVoteMap(choice) = <<>>
       THEN UNCHANGED <<state, filtered, currentPair, stored>>
       ELSE
         /\ Len(state.history) < MaxHist
         /\ \E o \in LegacyRebuildFiltered(
                        LegacyVoteState(state, currentPair, choice),
                        currentPair, categoryFilter, stored) : Become(o)

\* undo() of app.js, lines 292-321
LegacyUndo ==
    /\ LegacyFrame
    /\ UNCHANGED categoryFilter
    /\ IF Len(state.history) = 0
       THEN UNCHANGED <<state, filtered, currentPair, stored>>
       ELSE
         LET rep == LegacyReplay(<<>>, <<>>,
                                 SubSeq(state.history, 1, Len(state.history) - 1))
             s1 == [state EXCEPT !.ratings = rep.ratings,
                                 !.history = rep.history,
                                 !.lastPair = <<>>]
         IN  \E o \in LegacyRebuildFiltered(s1, currentPair, categoryFilter,
                                            stored) :
                Become([o EXCEPT !.stored = <<o.state>>])

\* the click handler of btnReset once confirmed, app.js lines 458-464
LegacyReset ==
    /\ LegacyFrame
    /\ UNCHANGED categoryFilter
    /\ \E o \in LegacyRebuildFiltered(getDefaultState, currentPair,
                                      categoryFilter, <<getDefaultState>>) :
         Become(o)

\* the change handler of the mode control, app.js lines 495-499
LegacySetMode(v) ==
    /\ v # state.mode
    /\ LegacyCfgDelta([state EXCEPT !.mode = v], categoryFilter) <= MaxCfgDelta
    /\ LegacyFrame
    /\ UNCHANGED categoryFilter
    /\ LET s1 == [state EXCEPT !.mode = v]
       IN  \E o \in LegacyNextPair(s1, filtered, currentPair, <<s1>>) :
             Become(o)

\* the change handler of the category filter, app.js line 491
LegacySetCategory(v) ==
    /\ v # categoryFilter
    /\ LegacyCfgDelta(state, v) <= MaxCfgDelta
    /\ LegacyFrame
    /\ categoryFilter' = v
    /\ \E o \in LegacyRebuildFiltered(state, currentPair, v, stored) :
         Become(o)

LegacyVoteAny == \E choice \in Choices \cup {UnknownChoice} : LegacyVote(choice)
LegacySetModeAny == \E v \in Modes : LegacySetMode(v)
LegacySetCategoryAny == \E v \in LegacyCategories : LegacySetCategory(v)

LegacyNext ==
    \/ LegacyVoteAny
    \/ LegacyUndo
    \/ LegacyReset
    \/ LegacySetModeAny
    \/ LegacySetCategoryAny

LegacySpec == LegacyInit /\ [][LegacyNext]_vars

\* ------------------------------------------------------------------ claims
LastEntry(s) == s.history[Len(s.history)]

\* the ratings undo() leaves when called on the state object s
RatingsAfterUndo(s) == HydrateAll(UndoState(s).ratings, 1)

\* C1: whenever a vote has appended an entry e to the history, an undo called
\* next gives every item the mu, sigma, n, wins, losses and ties it had
\* before e was cast.
C1_UndoRestoresRatings ==
    [][Len(state'.history) = Len(state.history) + 1
         => RatingsAfterUndo(state') = state.ratings]_vars

\* C1 witness: the last vote was a rated one on top of an earlier rated vote,
\* and undoing it changes the ratings
C1_Witness ==
    /\ Len(state.history) >= 2
    /\ LastEntry(state).outcome # NoOutcome
    /\ state.history[1].outcome # NoOutcome
    /\ RatingsAfterUndo(state) # state.ratings

\* C2: in every reachable state the stored ratings are the ratings a replay
\* of the current history from default ratings yields, items the history
\* does not mention being at the default.
C2_NoDrift ==
    state.ratings = HydrateAll(Replay(<<>>, <<>>, state.history).ratings, 1)

\* C2 witness: a history with a joint vote and a pairwise vote in it
C2_Witness ==
    /\ \E i \in 1..Len(state.history) :
         state.history[i].choice \in {"BOTH", "NEITHER"}
    /\ \E i \in 1..Len(state.history) :
         state.history[i].choice \in {"A", "STRONG_A", "B", "STRONG_B"}
    /\ \E id \in Ids : state.ratings[id] = DefaultRating

\* C5: in the arena every item's sigma stays at or above MIN_SIGMA through
\* every vote (pairwise updates and BOTH / NEITHER adjustments) and undo.
C5_SigmaFloor ==
    \A id \in DOMAIN ratState.ratings :
       ratState.ratings[id].sigma >= MIN_SIGMA

\* C5 witness: a joint vote cast after the warm-up left an item on the floor
C5_Witness ==
    /\ Len(ratState.history) > ratWarm
    /\ LastEntry(ratState).choice \in {"BOTH", "NEITHER"}
    /\ \E id \in DOMAIN ratState.ratings :
         ratState.ratings[id].sigma = MIN_SIGMA

\* C8: a SKIP vote on a current pair appends one entry with no outcome
\* (choice SKIP, kMult 0) for that pair to the history and leaves the rating
\* record of every item as it was.
C8_SkipRecordsOnly ==
    [][(Vote("SKIP") /\ currentPair # NULL)
         => /\ state'.history =
                 Append(state.history,
                        [a |-> currentPair[1].id, b |-> currentPair[2].id,
                         outcome |-> NoOutcome, choice |-> "SKIP",
                         kMult |-> 0, neitherPenaltyApplied |-> FALSE])
            /\ state'.ratings = state.ratings]_vars

\* C8 witness: a SKIP was recorded on top of a rated vote
C8_Witness ==
    /\ Len(state.history) >= 2
    /\ LastEntry(state).choice = "SKIP"
    /\ LastEntry(state).outcome = NoOutcome
    /\ state.history[1].outcome # NoOutcome

C10_UndoTruncates ==
    [][Undo
         => IF state.history = <<>>
            THEN UNCHANGED ctlVars
            ELSE state'.history =
                   SubSeq(state.history, 1, Len(state.history) - 1)]_vars

\* C10 witness: an undo has run (lastPair is empty with entries on record,
\* which only undo leaves when no pair can follow) and kept a skip entry
C10_Witness ==
    /\ state.lastPair = <<>>
    /\ Len(state.history) >= 1
    /\ state.history[1].choice = "SKIP"

\* the items of the call that pass the wins filter, and the call's result
SelEligible == applyWinsFilter(selItems, selState)
SelCalled == selResult # <<>>
SelPair == selResult[1]
SelLastIds == IdsOf(selState.lastPair)

\* C3: a non-null result of chooseNextPair is two items with distinct ids,
\* both of them items of the input pool, in every mode, priority and strategy.
C3_PairValid ==
    (SelCalled /\ SelPair # NULL)
      => /\ Len(SelPair) = 2
         /\ SelPair[1].id # SelPair[2].id
         /\ \A k \in 1..2 : \E i \in 1..Len(selItems) : selItems[i] = SelPair[k]

\* C3 witness: a pair came back from a pool of three in resolve_ties mode
C3_Witness ==
    /\ SelCalled
    /\ SelPair # NULL
    /\ Len(selItems) = 3
    /\ selState.mode = "resolve_ties"
    /\ selState.lastPair # <<>>

\* C4: with two or more items passing the wins filter chooseNextPair returns
\* a pair, whatever the mode, priority, strategy and n counts.
C4_PairWheneverTwoEligible ==
    (SelCalled /\ Len(SelEligible) >= 2) => SelPair # NULL

\* C6: with three or more eligible items and lastPair two items P, Q of the
\* pool, chooseNextPair does not return the pair {P, Q}.
C6_NeverRepeats ==
    (SelCalled /\ Len(SelEligible) >= 3 /\ selState.lastPair # <<>>
       /\ SelPair # NULL)
      => IdsOf(SelPair) # SelLastIds

\* the eligible items all have the same comparison count n
SelSameN == \A i, j \in 1..Len(SelEligible) : SelEligible[i].n = SelEligible[j].n

\* the eligible items all have the same primary category
SelSameCat ==
    \A i, j \in 1..Len(SelEligible) : SelEligible[i].cat1 = SelEligible[j].cat1

\* the items of lastPair are not a whole group of mu-tied eligible items
SelLastNotTieGroup ==
    {SelEligible[i].id : i \in {j \in 1..Len(SelEligible) :
        \E k \in 1..Len(selState.lastPair) :
           MuKey(SelEligible[j].mu) = MuKey(selState.lastPair[k].mu)}}
      # SelLastIds

\* C6 as the selector keeps it: with three or more eligible items, all of the
\* same n, lastPair two items P, Q of the pool, and - outside random mode -
\* all of the same primary category, and - in resolve_ties mode - P and Q not
\* the only items tied at their mu, chooseNextPair does not return {P, Q}.
C6_NoRepeatInOneBucket ==
    (SelCalled /\ Len(SelEligible) >= 3 /\ selState.lastPair # <<>>
       /\ SelPair # NULL
       /\ SelSameN
       /\ (selState.mode # "random" => SelSameCat)
       /\ (selState.mode = "resolve_ties" => SelLastNotTieGroup))
      => IdsOf(SelPair) # SelLastIds

\* C6 witness: such a call returned a pair that shares an item with lastPair
C6_Witness ==
    /\ SelCalled
    /\ Len(SelEligible) >= 3
    /\ selState.lastPair # <<>>
    /\ SelPair # NULL
    /\ SelSameN
    /\ SelSameCat
    /\ selState.mode = "resolve_ties"
    /\ SelLastNotTieGroup
    /\ IdsOf(SelPair) \cap SelLastIds # {}
    /\ IdsOf(SelPair) # SelLastIds

\* C7: a call of chooseNextPair leaves the items array (order and fields) and
\* the selection state, lastPair included, as they were.
C7_InputsUntouched ==
    [][(selResult = <<>> /\ selResult' # <<>>)
         => (selItems' = selItems /\ selState' = selState)]_vars

\* C7 witness: a call that had to reorder its pool by mu returned a pair
C7_Witness ==
    /\ SelCalled
    /\ SelPair # NULL
    /\ selState.muPriority = "highest"
    /\ \E i, j \in 1..Len(selItems) : i < j /\ selItems[i].mu < selItems[j].mu

\* C11: once re-selection has found no pair (here: the filtered pool holds
\* fewer than 2 items, so nextPair returned at once), a vote with any label
\* changes neither the ratings nor the history.
C11_NoVoteWithoutPair ==
    [][(Len(filtered) < 2 /\ VoteAny)
         => (state'.ratings = state.ratings
             /\ state'.history = state.history)]_vars

\* C12: after every step each history entry with an outcome names two loaded
\* papers a and b with a # b, and the entry a vote appends names the pair
\* that was current when the vote was cast.
C12_EntriesNamePairs ==
    [][/\ \A i \in 1..Len(state'.history) :
            state'.history[i].outcome # NoOutcome
              => /\ state'.history[i].a \in Ids
                 /\ state'.history[i].b \in Ids
                 /\ state'.history[i].a # state'.history[i].b
       /\ Len(state'.history) = Len(state.history) + 1
            => /\ currentPair # NULL
               /\ LastEntry(state').a = currentPair[1].id
               /\ LastEntry(state').b = currentPair[2].id]_vars

\* C12 witness: two rated entries on record, cast on different pairs
C12_Witness ==
    /\ Len(state.history) = 2
    /\ state.history[1].outcome # NoOutcome
    /\ state.history[2].outcome # NoOutcome
    /\ {state.history[1].a, state.history[1].b}
         # {state.history[2].a, state.history[2].b}

\* a vote with this label has just been appended to the history
Cast(choice) ==
    /\ Len(state'.history) = Len(state.history) + 1
    /\ LastEntry(state').choice = choice

\* C13: a vote "A" on two papers at the default rating (mu 1500, sigma 350,
\* n 0, no counters) leaves A at mu 1516, B at mu 1484, both at sigma 325.5
\* and n 1, with A.wins = 1, B.losses = 1 and every other counter 0.
C13_PairwiseReference ==
    [][(/\ Cast("A")
        /\ state.ratings[LastEntry(state').a] = DefaultRating
        /\ state.ratings[LastEntry(state').b] = DefaultRating)
         => /\ state'.ratings[LastEntry(state').a] =
                 [mu |-> 1516 * SCALE, sigma |-> (3255 * SCALE) \div 10,
                  n |-> 1, wins |-> 1, losses |-> 0, ties |-> 0]
            /\ state'.ratings[LastEntry(state').b] =
                 [mu |-> 1484 * SCALE, sigma |-> (3255 * SCALE) \div 10,
                  n |-> 1, wins |-> 0, losses |-> 1, ties |-> 0]]_vars

\* C13 witness: the first vote of a session was an "A"
C13_Witness ==
    /\ Len(state.history) = 1
    /\ state.history[1].choice = "A"
    /\ state.ratings[state.history[1].a].wins = 1
    /\ state.ratings[state.history[1].b].losses = 1

\* what a BOTH vote makes of the rating record r, from r alone:
\* mu + 32 * 0.8 * clamp(sigma / 350, 0.6, 1.8) * 0.45, sigma * 0.93 * 0.99
\* (not below MIN_SIGMA), n + 1
AfterBoth(r) ==
    [r EXCEPT !.mu = r.mu + RDiv(EffectiveK(BASE_K * 80, r.sigma) * 45, 100),
              !.sigma = Max(MIN_SIGMA, RDiv(RDiv(r.sigma * 93, 100) * 99, 100)),
              !.n = r.n + 1,
              !.ties = r.ties + 1]

\* C14: a BOTH vote moves each of the two items by its own record alone
\* (whatever the other item's rating is), and an item at the default rating
\* goes to mu 1511.52, sigma 350 * 0.93 * 0.99 = 322.245, n 1.
C14_JointReference ==
    [][Cast("BOTH")
         => \A id \in {LastEntry(state').a, LastEntry(state').b} :
              /\ state'.ratings[id] = AfterBoth(state.ratings[id])
              /\ state.ratings[id] = DefaultRating
                   => /\ state'.ratings[id].mu = (151152 * SCALE) \div 100
                      /\ state'.ratings[id].sigma = (322245 * SCALE) \div 1000
                      /\ state'.ratings[id].n = 1]_vars

\* C14 witness: a BOTH vote on a default-rated item and an item that had
\* been rated before, so that the two records differ
C14_Witness ==
    /\ Len(state.history) = 2
    /\ LastEntry(state).choice = "BOTH"
    /\ state.history[1].choice = "STRONG_A"
    /\ \E id \in {LastEntry(state).a, LastEntry(state).b} :
         state.ratings[id] = AfterBoth(DefaultRating)
    /\ \E id \in {LastEntry(state).a, LastEntry(state).b} :
         state.ratings[id].n = 2

\* a vote with outcome 1.0 has just been cast in the arena on two papers of
\* equal sigma
ArenaWinOnEqualSigma ==
    /\ Len(ratState'.history) = Len(ratState.history) + 1
    /\ LastEntry(ratState').outcome = OUT_A
    /\ ratState.ratings[LastEntry(ratState').a].sigma
         = ratState.ratings[LastEntry(ratState').b].sigma

MuGain(id) == ratState'.ratings[id].mu - ratState.ratings[id].mu

StrictLead == 1500 * SCALE

MustKeep(h) ==
    /\ h.kind = "object"
    /\ ~(h.outcome # NoOutcome /\ h.outcome # Missing
         /\ (h.a = Missing \/ h.b = Missing))

NormLoaded == normState # <<>> /\ normState[1] # NULL /\ rawState[1].historyIsArray
NormHistory == normState[1][1].history
KeptRaw == SelectSeq(rawState[1].history, MustKeep)

\* C16: the normalized history holds exactly the saved entries that are
\* objects and do not have an outcome with a missing id, in their order
\* (same ids, same numeric outcome, same saved timestamp), and normalizing
\* the normalized history once more returns it unchanged.
C16_NormalizationDropsMalformed ==
    NormLoaded
      => /\ Len(NormHistory) = Len(KeptRaw)
         /\ \A i \in 1..Len(KeptRaw) :
              /\ NormHistory[i].a = KeptRaw[i].a
              /\ NormHistory[i].b = KeptRaw[i].b
              /\ KeptRaw[i].outcome >= 0
                   => NormHistory[i].outcome = KeptRaw[i].outcome
              /\ KeptRaw[i].ts # Missing => NormHistory[i].ts = KeptRaw[i].ts
         /\ \A now \in Times : NormalizeHistory(NormHistory, now) = NormHistory

\* C16 witness: of two saved entries a malformed first one was dropped and a
\* skip entry without ids was kept
C16_Witness ==
    /\ NormLoaded
    /\ Len(rawState[1].history) = 2
    /\ ~MustKeep(rawState[1].history[1])
    /\ rawState[1].history[1].kind = "object"
    /\ Len(NormHistory) = 1
    /\ NormHistory[1].a = Missing
    /\ NormHistory[1].choice = "SKIP"

\* C17: after every handler the state last written to storage has the
\* history, the lastPair and the selection settings of the state in memory,
\* and the same rating record for every item that has been rated.
C17_StorageFollowsState ==
    /\ stored # <<>>
    /\ stored[1].history = state.history
    /\ stored[1].lastPair = state.lastPair
    /\ stored[1].mode = state.mode
    /\ stored[1].topN = state.topN
    /\ stored[1].resolveTieNMatches = state.resolveTieNMatches
    /\ stored[1].muPriority = state.muPriority
    /\ stored[1].winsOnly = state.winsOnly
    /\ \A id \in DOMAIN state.ratings :
         IF id \in DOMAIN stored[1].ratings
         THEN stored[1].ratings[id] = state.ratings[id]
         ELSE state.ratings[id] = DefaultRating

\* C17 witness: a rated vote was cast and re-selection found no pair, so the
\* save of vote itself is the last one
C17_Witness ==
    /\ Len(state.history) >= 1
    /\ LastEntry(state).outcome # NoOutcome
    /\ Len(filtered) < 2
    /\ state.ratings[LastEntry(state).a].n = Len(state.history)
    /\ stored # <<>>
    /\ stored[1].history = state.history

\* C18: an invocation of renderSchedule that is answered after a later
\* invocation (of any pool, one without oral items included) has started
\* does not write to the schedule view.
C18_SupersededRunNeverWrites ==
    [][\A inv \in schedPending :
         (inv \notin schedPending' /\ inv.call # Len(schedRuns))
           => scheduleView' = scheduleView]_vars

\* two eligible items of the call have the same mu key: a tie group exists
SelHasTieGroup ==
    \E i, j \in 1..Len(SelEligible) :
       i # j /\ MuKey(SelEligible[i].mu) = MuKey(SelEligible[j].mu)

\* C19: in resolve_ties mode, when a tie group has two or more eligible
\* members, chooseNextPair returns two members of one tie group, whatever the
\* comparison counts n of the members.
C19_TieGroupPairReturned ==
    (SelCalled /\ selState.mode = "resolve_ties" /\ SelHasTieGroup)
      => /\ SelPair # NULL
         /\ MuKey(SelPair[1].mu) = MuKey(SelPair[2].mu)

\* what chooseTieResolutionPair can return in the call (line 80)
SelTieAttempt ==
    UNION {chooseTieResolutionPair(prioritized, selState, SelLastIds) :
             prioritized \in orderByMuPriority(SelEligible, selState)}

\* the call runs without Math.random
SelDeterministic ==
    /\ selState.muPriority # "random"
    /\ selState.resolveTieNMatches # "random"

\* C20: in resolve_ties mode with two or more eligible items, priority and
\* n strategy not random, when the tie-resolution attempt yields no pair,
\* chooseNextPair returns a pair, and it is the pair mode active returns for
\* the same items and selection state.
C20_FallsThroughToActive ==
    (SelCalled /\ selState.mode = "resolve_ties" /\ Len(SelEligible) >= 2
       /\ SelDeterministic /\ SelTieAttempt = {NULL})
      => /\ SelPair # NULL
         /\ chooseNextPair(selItems, [selState EXCEPT !.mode = "active"])
              = {SelPair}

\* C20 witness: a tie group was there, no pair came out of it, and the call
\* returned a pair of items of different mu
C20_Witness ==
    /\ SelCalled
    /\ selState.mode = "resolve_ties"
    /\ Len(SelEligible) >= 3
    /\ SelDeterministic
    /\ SelHasTieGroup
    /\ SelTieAttempt = {NULL}
    /\ SelPair # NULL
    /\ MuKey(SelPair[1].mu) # MuKey(SelPair[2].mu)

\* C21: from the same starting sigma an update with a tie (outcome 0.5)
\* leaves a sigma greater than or equal to the one an update with a decisive
\* outcome leaves.  Checked on the votes BOTH and NEITHER of the older
\* controller, which updatePair rates with outcome 0.5.
C21_TieShrinksSigmaLess ==
    [][(Len(state'.history) = Len(state.history) + 1
          /\ LastEntry(state').outcome = OUT_TIE)
         => LET h == LastEntry(state')
                rA == getRating(state.ratings, h.a)[h.a]
                rB == getRating(state.ratings, h.b)[h.b]
                decisive == updatePair(rA, rB, OUT_A, BASE_K * h.kMult)
            IN  /\ state'.ratings[h.a].sigma >= decisive.A.sigma
                /\ state'.ratings[h.b].sigma >= decisive.B.sigma]_vars

\* the entry h replayed by the update rules alone, then 10 points taken from
\* both of its items when its penalty flag is set
PenaltyEntry(ratings, h) ==
    LET r == ReplayEntry(ratings, [h EXCEPT !.neitherPenaltyApplied = FALSE])
        pen == IF h.neitherPenaltyApplied THEN 10 * SCALE ELSE 0
    IN  [r EXCEPT ![h.a].mu = @ - pen, ![h.b].mu = @ - pen]

RECURSIVE PenalizedReplay(_, _)
PenalizedReplay(ratings, entries) ==
    IF entries = <<>> THEN ratings
    ELSE IF Head(entries).outcome = NoOutcome
    THEN PenalizedReplay(ratings, Tail(entries))
    ELSE Value({PenalizedReplay(r, Tail(entries)) :
                  r \in {PenaltyEntry(ratings, Head(entries))}})

\* C22: an undo of the unified controller replays every entry whose
\* neitherPenaltyApplied flag is set, whatever its label, with 10 points
\* taken from the mu of both of its items.
C22_FlaggedEntriesPenalized ==
    [][(rawState' = rawState /\ Len(state.history) >= 1
          /\ Len(state'.history) = Len(state.history) - 1)
         => LET want == PenalizedReplay(<<>>, state'.history)
            IN  \A id \in DOMAIN want : state'.ratings[id].mu = want[id].mu]_vars

\* the positions of the items of the call that have won at least once
SelWinners == {i \in 1..Len(selItems) : selItems[i].wins >= 1}

\* C23: with winsOnly set, in every mode, both items of a returned pair have
\* wins >= 1, and the result is null when fewer than two items of the pool
\* have wins >= 1.
C23_WinsOnlyRespected ==
    (SelCalled /\ selState.winsOnly)
      => /\ SelPair # NULL => \A k \in 1..2 : SelPair[k].wins >= 1
         /\ Cardinality(SelWinners) < 2 => SelPair = NULL

\* C23 witness: winsOnly is set, the pool holds an item without wins next to
\* two winners, and a pair came back
C23_Witness ==
    /\ SelCalled
    /\ selState.winsOnly
    /\ Cardinality(SelWinners) = 2
    /\ Len(selItems) = 3
    /\ SelPair # NULL

\* the call ran the active / bubble selection and returned the pair <<A, B>>
SelActivePair ==
    /\ SelCalled
    /\ selState.mode \in {"active", "bubble"}
    /\ SelPair # NULL

\* C24: in active and bubble selection, when some eligible item other than A
\* has a primary category different from A's, the B returned has a primary
\* category different from A's.
C24_DiverseOpponent ==
    (SelActivePair
       /\ \E i \in 1..Len(SelEligible) :
             /\ SelEligible[i].id # SelPair[1].id
             /\ SelEligible[i].cat1 # SelPair[1].cat1)
      => SelPair[2].cat1 # SelPair[1].cat1

\* C24 witness: B is of another category than A although an item of A's
\* category is closer to A in mu
C24_Witness ==
    /\ SelActivePair
    /\ SelPair[2].cat1 # SelPair[1].cat1
    /\ \E i \in 1..Len(SelEligible) :
          /\ SelEligible[i].id # SelPair[1].id
          /\ SelEligible[i].cat1 = SelPair[1].cat1
          /\ Abs(SelEligible[i].mu - SelPair[1].mu)
               < Abs(SelPair[2].mu - SelPair[1].mu)

\* the ids of the first size items of the boundary source of the call (the
\* priority ordering, reversed when muPriority is lowest)
BubbleWindow(size) ==
    LET prioritized == Value(orderByMuPriority(SelEligible, selState))
    IN  IdsOf(Take(IF selState.muPriority = "lowest"
                   THEN Reverse(prioritized) ELSE prioritized, size))

\* the ids of candidate-B for the A returned: the items other than A by
\* closeness in mu, then sigma descending, those of another category when
\* there are any, the first 30
SelCandidateB ==
    LET A == SelPair[1]
        prioritized == Value(orderByMuPriority(SelEligible, selState))
        others == SelectSeq(prioritized, LAMBDA x : x.id # A.id)
        sorted == SortArray(others, LAMBDA u, v :
                      \/ Abs(u.mu - A.mu) < Abs(v.mu - A.mu)
                      \/ /\ Abs(u.mu - A.mu) = Abs(v.mu - A.mu)
                         /\ v.sigma < u.sigma)
        diverse == SelectSeq(sorted, LAMBDA c : c.cat1 # A.cat1)
    IN  IdsOf(Take(IF Len(diverse) > 0 THEN diverse ELSE sorted, 30))

\* the call ran in bubble mode with a positive topN and returned a pair
\* whose A is in the window of the given size, candidate-B holding an item
\* of that window
BubbleCase(size) ==
    /\ SelCalled
    /\ selState.mode = "bubble"
    /\ selState.topN > 0
    /\ selState.muPriority # "random"
    /\ SelPair # NULL
    /\ SelPair[1].id \in BubbleWindow(size)
    /\ SelCandidateB \cap BubbleWindow(size) # {}

\* C25 as stated: the window is the first topN + 20 items
C25_WindowIsTopNPlus20 ==
    BubbleCase(selState.topN + 20)
      => SelPair[2].id \in BubbleWindow(selState.topN + 20)

\* C25: in bubble mode, for every positive topN, the boundary window is the
\* first max(10, topN) + 20 items of the priority ordering (reversed when
\* muPriority is lowest): when A is in that window and candidate-B holds an
\* item of that window, the B returned is an item of that window.
C25_WindowIsFlooredTopNPlus20 ==
    BubbleCase(Max(10, selState.topN) + 20)
      => SelPair[2].id \in BubbleWindow(Max(10, selState.topN) + 20)

\* C25 witness: the window made the difference, candidate-B holding an item
\* outside of it
C25_Witness ==
    /\ BubbleCase(Max(10, selState.topN) + 20)
    /\ SelCandidateB \ BubbleWindow(Max(10, selState.topN) + 20) # {}

\* C26: when a vote handler of the older controller returns, storage holds
\* the history with the appended entry and the updated ratings, whether or
\* not a next pair was found.
C26_LegacyVotePersisted ==
    [][(LegacyVoteAny /\ Len(state'.history) = Len(state.history) + 1)
         => /\ stored' # <<>>
            /\ stored'[1].history = state'.history
            /\ stored'[1].ratings = state'.ratings]_vars

\* the sum of wins minus losses over the rating records of the ids in S
RECURSIVE WinsMinusLosses(_, _)
WinsMinusLosses(ratings, S) ==
    IF S = {} THEN 0
    ELSE LET id == CHOOSE x \in S : TRUE
         IN  ratings[id].wins - ratings[id].losses
             + WinsMinusLosses(ratings, S \ {id})

\* C27: in every state reached from the fresh state by votes and undos (and
\* the other handlers), every rating record has n = wins + losses + ties,
\* and the wins of all items add up to the losses of all items.
C27_CountersConsistent ==
    /\ \A id \in DOMAIN state.ratings :
          state.ratings[id].n = state.ratings[id].wins
                                + state.ratings[id].losses
                                + state.ratings[id].ties
    /\ WinsMinusLosses(state.ratings, DOMAIN state.ratings) = 0

\* C27 witness: a decisive vote for B and a joint vote are on record
C27_Witness ==
    /\ Len(state.history) = 2
    /\ \E i, j \in 1..2 : /\ state.history[i].outcome = OUT_B
                          /\ state.history[j].choice = "NEITHER"
    /\ \E id \in DOMAIN state.ratings : state.ratings[id].n = 2

\* C28: a vote leaves the rating record (mu, sigma, n, wins, losses, ties)
\* of every item other than the two of the current pair as it was.
C28_VoteTouchesOnlyThePair ==
    [][(VoteAny /\ currentPair # NULL)
         => \A id \in Ids \ IdsOf(currentPair) :
               state'.ratings[id] = HydrateAll(state.ratings, 1)[id]]_vars

\* C28 witness: two rated votes are on record, the second on a pair that
\* shares an item with the first, and every paper has been rated
C28_Witness ==
    /\ Len(state.history) = 2
    /\ state.history[1].outcome # NoOutcome
    /\ state.history[2].outcome # NoOutcome
    /\ {state.history[1].a, state.history[1].b}
         # {state.history[2].a, state.history[2].b}
    /\ \A id \in Ids : state.ratings[id].n >= 1

\* the state normalizeState returns for the saved form of the state
Reloaded(now) == normalizeState(<<SavedForm(state)>>, now)[1]

\* C29: for every state reached by votes and undos (and the other
\* handlers), the state saved and loaded back through normalizeState has the
\* same ratings, and the replay of its history from the defaults gives the
\* ratings the replay of the history in memory gives.
C29_SaveLoadRoundTrip ==
    \A now \in Times :
       /\ Reloaded(now).ratings = state.ratings
       /\ Replay(<<>>, <<>>, Reloaded(now).history).ratings
            = Replay(<<>>, <<>>, state.history).ratings

\* C29 witness: the history holds two rated entries, one of them a NEITHER
\* entry whose flag normalization rewrites
C29_Witness ==
    /\ Len(state.history) = 2
    /\ state.history[1].outcome # NoOutcome
    /\ state.history[2].outcome # NoOutcome
    /\ \E i \in 1..2 :
          /\ state.history[i].choice = "NEITHER"
          /\ ~state.history[i].neitherPenaltyApplied
          /\ Reloaded(2).history[i].neitherPenaltyApplied

\* the learning-rate multiplier clamp(sigma / DEFAULT_SIGMA, 0.6, 1.8), in
\* thousandths
SigmaMultiplier(sigma) == clamp(RDiv(sigma * 1000, DEFAULT_SIGMA), 600, 1800)

\* the kMult values of the vote map, in 1/KSCALE
VoteKMults == {80, 100, 120, 180}

\* sigma is at most DEFAULT_SIGMA, the multiplier lies in [0.6, 1.0] and the
\* effective K of every vote is at most its baseK, for every item
SigmaBounded ==
    \A id \in DOMAIN ratState.ratings :
       LET sigma == ratState.ratings[id].sigma
       IN  /\ sigma <= DEFAULT_SIGMA
           /\ SigmaMultiplier(sigma) >= 600
           /\ SigmaMultiplier(sigma) <= 1000
           /\ \A k \in VoteKMults :
                 EffectiveK(BASE_K * k, sigma)
                   <= (BASE_K * k * SCALE) \div KSCALE

\* C30: in every state the arena reaches from the fresh state by votes and
\* undos, every item's sigma is at most DEFAULT_SIGMA, the multiplier
\* clamp(sigma / 350, 0.6, 1.8) lies between 0.6 and 1.0 and the effective K
\* of an update is at most its baseK; and no vote increases a sigma.
C30_SigmaNeverGrows ==
    /\ []SigmaBounded
    /\ [][RatVoteAny
            => \A id \in DOMAIN ratState.ratings :
                  ratState'.ratings[id].sigma <= ratState.ratings[id].sigma]_vars

\* C30 witness: after the warm-up a strong vote was cast with one paper on
\* the floor of sigma and another still at DEFAULT_SIGMA
C30_Witness ==
    /\ Len(ratState.history) > ratWarm
    /\ LastEntry(ratState).choice = "STRONG_A"
    /\ \E id \in DOMAIN ratState.ratings :
          ratState.ratings[id].sigma = MIN_SIGMA
    /\ \E id \in DOMAIN ratState.ratings :
          ratState.ratings[id].sigma = DEFAULT_SIGMA

====
